---- MODULE Spec2Model ----
(***************************************************************************)
(* KubeletMonitor (pkg/discovery/monitoring/kubelet/kubelet_monitor.go):   *)
(* the per-cycle scrape orchestrator, its stop channel and wait group, the *)
(* per-node scrape task and the metric generators that fill the sink.      *)
(***************************************************************************)
EXTENDS Integers, Sequences, FiniteSets, TLC

(* ------------------------------ bounds -------------------------------- *)
\* longest node list handed to ReceiveTask
MaxNodes == 2

Nodes == 1..MaxNodes
\* the goroutines that call Stop: the discovery worker's timeout handler
Stoppers == {"timeout"}

\* a nil pointer in the kubelet summary (all real values are unsigned)
Nil == -1

VARIABLES
    isFullDiscovery,  \* KubeletMonitor.isFullDiscovery
    pvGate,           \* features.PersistentVolumes gate of the process
    nodeList,         \* KubeletMonitor.nodeList, a sequence of node ids
    metricSink,       \* KubeletMonitor.metricSink, a set of metric entries
    stopCh,           \* KubeletMonitor.stopCh: [buf, closed] of the current channel
    wg,               \* KubeletMonitor.wg counter
    callerPc,         \* the calling goroutine: "idle", "spawning", "waiting"
    spawnIdx,         \* loop position of the for-range in RetrieveResourceStat
    rrsRet,           \* result of the last RetrieveResourceStat: "none", "nil", "error"
    taskPc,           \* per spawned goroutine: its position
    taskNode,         \* per spawned goroutine: the node (list element) it was given
    taskData,         \* per spawned goroutine: what the client answered so far
    stopPc,           \* per stopping goroutine: "idle", "blocked", "stale", "panicking"
    fault,            \* "none", or the unrecovered panic that ended the process
    hist,             \* history of the current cycle (observations only)
    probe             \* the input and result of a function exercised on its own

vars == <<isFullDiscovery, pvGate, nodeList, metricSink, stopCh, wg, callerPc,
          spawnIdx, rrsRet, taskPc, taskNode, taskData, stopPc, fault, hist, probe>>

(* --------------------------- metric model ----------------------------- *)
\* metrics.Point{Value, Timestamp} in a one-element slice
Point(v, ts) == [kind |-> "point", a |-> v, b |-> ts, c |-> 0]

\* a plain float64 metric value
Scalar(v) == [kind |-> "scalar", a |-> v, b |-> 0, c |-> 0]

\* metrics.ThrottlingCumulative{Throttled, Total, Timestamp} in a one-element slice
ThrottlingCumulative(throttled, total, ts) ==
    [kind |-> "throttling", a |-> throttled, b |-> total, c |-> ts]

\* the float64 100 * num / den, kept exact; den = 0 gives +Inf (num > 0) or NaN (num = 0)
Pct(num, den) == [kind |-> "pct", a |-> num, b |-> den, c |-> 0]

\* float64 comparison v <= 0 of a Pct value (false for NaN)
PctLE0(v) == (v.b > 0 /\ v.a <= 0) \/ (v.b = 0 /\ v.a < 0)

\* float64 comparison v >= 100 of a Pct value (false for NaN, true for +Inf)
PctGE100(v) == (v.b > 0 /\ v.a >= v.b) \/ (v.b = 0 /\ v.a > 0)

\* metrics.NewEntityResourceMetric(etype, key, mtype, role, value)
NewEntityResourceMetric(etype, key, mtype, role, val) ==
    [etype |-> etype, key |-> key, mtype |-> mtype, role |-> role, val |-> val]

\* metrics.NewEntityStateMetric(etype, key, mtype, value)
NewEntityStateMetric(etype, key, mtype, val) ==
    [etype |-> etype, key |-> key, mtype |-> mtype, role |-> "State", val |-> Scalar(val)]

\* EntityMetricSink.AddNewMetricEntries: the sink after the entries are stored
AddNewMetricEntries(sink, entries) ==
    sink \cup {entries[k] : k \in 1..Len(entries)}

(* ------------------------- util conversions --------------------------- *)
MetricNanoToUnit(v) == v \div 1000000000

Base2BytesToKilobytes(v) == v \div 1024

Base2BytesToMegabytes(v) == v \div 1048576

Base2MegabytesToBytes(v) == v * 1048576

\* the value behind a pointer, 0 when the pointer (or one on the way to it) is nil
OrZero(p) == IF p = Nil THEN 0 ELSE p

NodeKeyFunc(node) == <<node.Name>>

NodeStatsKeyFunc(nodeStats) == <<nodeStats.NodeName>>

\* the pod's name alone, without its namespace
PodMetricId_NameOnly(podRef) == <<podRef.Name>>

PodMetricId(podRef) == <<podRef.Namespace, podRef.Name>>

ContainerMetricId(podMId, containerName) == Append(podMId, containerName)

ApplicationMetricId(containerMId) == <<"App">> \o containerMId

PodVolumeMetricId(podKey, volName) == <<"Vol">> \o Append(podKey, volName)

ImagefsKey(key) == Append(key, "imagefs")

(* ----------------------------- generators ----------------------------- *)
\* each generator yields the entries it hands to AddNewMetricEntries, in order
genThrottlingMetrics(etype, key, throttled, total, timestamp) ==
    << NewEntityResourceMetric(etype, key, "VCPUThrottling", "Used",
                               ThrottlingCumulative(throttled, total, timestamp)) >>

genUsedMetrics(etype, key, cpu, memory, timestamp) ==
    << NewEntityResourceMetric(etype, key, "CPU", "Used", Point(cpu, timestamp)),
       NewEntityResourceMetric(etype, key, "Memory", "Used", Point(memory, timestamp)) >>

genRequestUsedMetrics(etype, key, cpu, memory, timestamp) ==
    << NewEntityResourceMetric(etype, key, "CPURequest", "Used", Point(cpu, timestamp)),
       NewEntityResourceMetric(etype, key, "MemoryRequest", "Used", Point(memory, timestamp)) >>

\* a consumer count of zero
genNumConsumersUsedMetrics_Zero(etype, key) ==
    << NewEntityResourceMetric(etype, key, "NumPods", "Used", Scalar(0)) >>

genNumConsumersUsedMetrics(etype, key) ==
    << NewEntityResourceMetric(etype, key, "NumPods", "Used", Scalar(1)) >>

\* both the available and the used entry written whatever the entity type
genFSMetrics_Both(etype, key, capacity, used, available) ==
    << NewEntityResourceMetric(etype, key, "VStorage", "Capacity", Scalar(capacity)),
       NewEntityResourceMetric(etype, key, "VStorage", "Available", Scalar(available)),
       NewEntityResourceMetric(etype, key, "VStorage", "Used", Scalar(used)) >>

genFSMetrics(etype, key, capacity, used, available) ==
    << NewEntityResourceMetric(etype, key, "VStorage", "Capacity", Scalar(capacity)) >>
    \o (IF etype = "Node"
        THEN << NewEntityResourceMetric(etype, key, "VStorage", "Available", Scalar(available)) >>
        ELSE << NewEntityResourceMetric(etype, key, "VStorage", "Used", Scalar(used)) >>)

genPVMetrics(etype, key, capacity, used) ==
    << NewEntityResourceMetric(etype, key, "StorageAmount", "Capacity", Scalar(capacity)),
       NewEntityResourceMetric(etype, key, "StorageAmount", "Used", Scalar(used)) >>

parseNodeCpuFreq(node, cpuFrequencyMHz) ==
    << NewEntityStateMetric("Node", NodeKeyFunc(node), "CpuFrequency", cpuFrequencyMHz) >>

(* ----------------------------- thresholds ----------------------------- *)
\* value.Percentage is kept in hundredths (a 0-1 fraction times 100)
GetThresholdPercentile(value, capacity) ==
    IF value.Percentage # 0
    THEN Pct(value.Percentage, 100)
    ELSE Pct(value.Quantity, capacity)

\* the first threshold of the list carrying the signal taken in place of the last
LastSignal_First(thresholds, signal) ==
    LET hits == {k \in 1..Len(thresholds) : thresholds[k].Signal = signal}
    IN  IF hits = {} THEN 0 ELSE CHOOSE k \in hits : \A j \in hits : k <= j

\* position of the last threshold of the list carrying the signal, 0 when none does
LastSignal(thresholds, signal) ==
    LET hits == {k \in 1..Len(thresholds) : thresholds[k].Signal = signal}
    IN  IF hits = {} THEN 0 ELSE CHOOSE k \in hits : \A j \in hits : j <= k

\* the value a threshold variable holds when the range loop is over
ComputedThreshold(thresholds, signal, capacity) ==
    LET k == LastSignal(thresholds, signal)
    IN  IF k = 0 THEN Pct(0, 100) ELSE GetThresholdPercentile(thresholds[k].Value, capacity)

OutOfRange(v) == PctLE0(v) \/ PctGE100(v)

\* the memory fallback taken as a fixed 10 percent, like the root filesystem's
memThresholdOut_FixedDefault(memoryCapacity, thresholds) ==
    LET t == ComputedThreshold(thresholds, "memory.available", memoryCapacity)
    IN  IF OutOfRange(t) THEN Pct(10, 100) ELSE t

memThresholdOut(memoryCapacity, thresholds) ==
    LET t == ComputedThreshold(thresholds, "memory.available", memoryCapacity)
    IN  IF OutOfRange(t) THEN Pct(Base2MegabytesToBytes(100), memoryCapacity) ELSE t

\* the image-filesystem range check leaving the root-filesystem variable alone
rootfsThresholdOut_OwnDefault(rootfsCapacity, imagefsCapacity, thresholds) ==
    LET r == ComputedThreshold(thresholds, "nodefs.available", rootfsCapacity)
    IN  IF OutOfRange(r) THEN Pct(10, 100) ELSE r

rootfsThresholdOut(rootfsCapacity, imagefsCapacity, thresholds) ==
    LET r == ComputedThreshold(thresholds, "nodefs.available", rootfsCapacity)
        i == ComputedThreshold(thresholds, "imagefs.available", imagefsCapacity)
        r1 == IF OutOfRange(r) THEN Pct(10, 100) ELSE r
    IN  IF OutOfRange(i) THEN Pct(15, 100) ELSE r1

imagefsThresholdOut(imagefsCapacity, thresholds) ==
    ComputedThreshold(thresholds, "imagefs.available", imagefsCapacity)

parseThresholdValues(key, memoryCapacity, rootfsCapacity, imagefsCapacity, thresholds) ==
    << NewEntityResourceMetric("Node", key, "Memory", "Threshold",
                               memThresholdOut(memoryCapacity, thresholds)),
       NewEntityResourceMetric("Node", key, "VStorage", "Threshold",
                               rootfsThresholdOut(rootfsCapacity, imagefsCapacity, thresholds)),
       NewEntityResourceMetric("Node", ImagefsKey(key), "VStorage", "Threshold",
                               imagefsThresholdOut(imagefsCapacity, thresholds)) >>

(* ------------------------- node and pod stats ------------------------- *)
\* line 290 reads ImageFs.AvailableBytes under a guard on ImageFs.UsedBytes
parseNodeStatsFaults(nodeStats) ==
    nodeStats.ImageFsUsedBytes # Nil /\ nodeStats.ImageFsAvailableBytes = Nil

parseNodeStats(nodeStats, thresholds, timestamp, full) ==
    LET cpuUsageCore == MetricNanoToUnit(OrZero(nodeStats.UsageNanoCores))
        memoryWorkingSetBytes == OrZero(nodeStats.WorkingSetBytes)
        memoryAvailableBytes == OrZero(nodeStats.AvailableBytes)
        rootfsCapacityBytes == OrZero(nodeStats.FsCapacityBytes)
        rootfsAvailableBytes == OrZero(nodeStats.FsAvailableBytes)
        imagefsCapacityBytes == OrZero(nodeStats.ImageFsCapacityBytes)
        imagefsAvailableBytes ==
            IF nodeStats.ImageFsUsedBytes # Nil THEN nodeStats.ImageFsAvailableBytes ELSE 0
        key == NodeStatsKeyFunc(nodeStats)
        memoryWorkingSetKiloBytes == Base2BytesToKilobytes(memoryWorkingSetBytes)
        memoryCapacityBytes == memoryAvailableBytes + memoryWorkingSetBytes
    IN  genUsedMetrics("Node", key, cpuUsageCore, memoryWorkingSetKiloBytes, timestamp)
        \o (IF full
            THEN genFSMetrics("Node", key, rootfsCapacityBytes, 0, rootfsAvailableBytes)
                 \o genFSMetrics("Node", ImagefsKey(key), imagefsCapacityBytes, 0,
                                 imagefsAvailableBytes)
                 \o parseThresholdValues(key, memoryCapacityBytes, rootfsCapacityBytes,
                                         imagefsCapacityBytes, thresholds)
            ELSE << >>)

\* the test of the memory working set (lines 444-446) left out
ContainerSkipped_CpuOnly(container) ==
    container.UsageNanoCores = Nil

\* a container the loop of parseContainerStats passes over (lines 441-446)
ContainerSkipped(container) ==
    container.UsageNanoCores = Nil \/ container.WorkingSetBytes = Nil

RECURSIVE parseContainersFrom_AppRequests(_, _, _)
\* the loop with request-used entries written for the application as well
parseContainersFrom_AppRequests(pod, k, timestamp) ==
    IF k > Len(pod.Containers)
    THEN [entries |-> << >>, cpu |-> 0, mem |-> 0]
    ELSE LET container == pod.Containers[k]
             rest == parseContainersFrom_AppRequests(pod, k + 1, timestamp)
             cpuUsed == MetricNanoToUnit(container.UsageNanoCores)
             memUsed == Base2BytesToKilobytes(container.WorkingSetBytes)
             containerMId == ContainerMetricId(PodMetricId(pod.PodRef), container.Name)
             appMId == ApplicationMetricId(containerMId)
         IN  IF ContainerSkipped(container)
             THEN rest
             ELSE [entries |->
                       genUsedMetrics("Container", containerMId, cpuUsed, memUsed, timestamp)
                       \o genRequestUsedMetrics("Container", containerMId, cpuUsed, memUsed,
                                                timestamp)
                       \o genUsedMetrics("Application", appMId, cpuUsed, memUsed, timestamp)
                       \o genRequestUsedMetrics("Application", appMId, cpuUsed, memUsed,
                                                timestamp)
                       \o rest.entries,
                   cpu |-> cpuUsed + rest.cpu,
                   mem |-> memUsed + rest.mem]

RECURSIVE parseContainersFrom(_, _, _)
\* the loop of parseContainerStats from container k on: entries and the two totals
parseContainersFrom(pod, k, timestamp) ==
    IF k > Len(pod.Containers)
    THEN [entries |-> << >>, cpu |-> 0, mem |-> 0]
    ELSE LET container == pod.Containers[k]
             rest == parseContainersFrom(pod, k + 1, timestamp)
             cpuUsed == MetricNanoToUnit(container.UsageNanoCores)
             memUsed == Base2BytesToKilobytes(container.WorkingSetBytes)
             containerMId == ContainerMetricId(PodMetricId(pod.PodRef), container.Name)
             appMId == ApplicationMetricId(containerMId)
         IN  IF ContainerSkipped(container)
             THEN rest
             ELSE [entries |->
                       genUsedMetrics("Container", containerMId, cpuUsed, memUsed, timestamp)
                       \o genRequestUsedMetrics("Container", containerMId, cpuUsed, memUsed,
                                                timestamp)
                       \o genUsedMetrics("Application", appMId, cpuUsed, memUsed, timestamp)
                       \o rest.entries,
                   cpu |-> cpuUsed + rest.cpu,
                   mem |-> memUsed + rest.mem]

parseContainerStats(pod, timestamp) == parseContainersFrom(pod, 1, timestamp)

RECURSIVE parseVolumesFrom(_, _, _)
parseVolumesFrom(volStats, k, podKey) ==
    IF k > Len(volStats)
    THEN << >>
    ELSE LET volStat == volStats[k]
             capacity == Base2BytesToMegabytes(OrZero(volStat.CapacityBytes))
             used == Base2BytesToMegabytes(OrZero(volStat.UsedBytes))
         IN  genPVMetrics("Pod", PodVolumeMetricId(podKey, volStat.Name), capacity, used)
             \o parseVolumesFrom(volStats, k + 1, podKey)

parseVolumeStats(volStats, podKey) == parseVolumesFrom(volStats, 1, podKey)

\* the loop body with the volumes parsed whatever the feature gate says
parseOnePod_GateIgnored(pod, timestamp, full, gate) ==
    LET used == parseContainerStats(pod, timestamp)
        key == PodMetricId(pod.PodRef)
        ephemeralFsCapacity == Base2BytesToMegabytes(OrZero(pod.EphemeralCapacityBytes))
        ephemeralFsUsed == Base2BytesToMegabytes(OrZero(pod.EphemeralUsedBytes))
    IN  used.entries
        \o genUsedMetrics("Pod", key, used.cpu, used.mem, timestamp)
        \o (IF full
            THEN genNumConsumersUsedMetrics("Pod", key)
                 \o genFSMetrics("Pod", key, ephemeralFsCapacity, ephemeralFsUsed, 0)
                 \o parseVolumeStats(pod.VolumeStats, key)
            ELSE << >>)

\* one iteration of the loop of parsePodStats
parseOnePod(pod, timestamp, full, gate) ==
    LET used == parseContainerStats(pod, timestamp)
        key == PodMetricId(pod.PodRef)
        ephemeralFsCapacity == Base2BytesToMegabytes(OrZero(pod.EphemeralCapacityBytes))
        ephemeralFsUsed == Base2BytesToMegabytes(OrZero(pod.EphemeralUsedBytes))
    IN  used.entries
        \o genUsedMetrics("Pod", key, used.cpu, used.mem, timestamp)
        \o (IF full
            THEN genNumConsumersUsedMetrics("Pod", key)
                 \o genFSMetrics("Pod", key, ephemeralFsCapacity, ephemeralFsUsed, 0)
                 \o (IF gate THEN parseVolumeStats(pod.VolumeStats, key) ELSE << >>)
            ELSE << >>)

RECURSIVE parsePodsFrom(_, _, _, _, _)
parsePodsFrom(podStats, k, timestamp, full, gate) ==
    IF k > Len(podStats)
    THEN << >>
    ELSE parseOnePod(podStats[k], timestamp, full, gate)
         \o parsePodsFrom(podStats, k + 1, timestamp, full, gate)

parsePodStats(podStats, timestamp, full, gate) ==
    parsePodsFrom(podStats, 1, timestamp, full, gate)

(* ------------------------- throttling counters ------------------------ *)
ContainerCPUTotal == "container_cpu_cfs_periods_total"

ContainerCPUThrottledTotal == "container_cpu_cfs_throttled_periods_total"

\* the value the label loop leaves in a variable set by the labels named in names
LabelValue(labels, names) ==
    LET hits == {k \in 1..Len(labels) : labels[k][1] \in names}
    IN  IF hits = {} THEN "" ELSE labels[CHOOSE k \in hits : \A j \in hits : j <= k][2]

\* the map parsed after parsed[metricID] = tm
MapSet(parsed, metricID, tm) ==
    [id \in DOMAIN parsed \cup {metricID} |-> IF id = metricID THEN tm ELSE parsed[id]]

\* the loop body with a fresh throttlingMetric for every point: nothing is merged
parseOneMetric_NoMerge(metricName, metric, parsed) ==
    LET name == LabelValue(metric.Label, {"container", "container_name"})
        namespace == LabelValue(metric.Label, {"namespace"})
        podName == LabelValue(metric.Label, {"pod", "pod_name"})
        metricID == <<namespace, podName, name>>
        tm == [cpuThrottled |-> 0, cpuTotal |-> 0]
    IN  IF metric.IsNil \/ name = ""
        THEN parsed
        ELSE IF metricName = ContainerCPUTotal
             THEN MapSet(parsed, metricID, [tm EXCEPT !.cpuTotal = metric.Value])
             ELSE MapSet(parsed, metricID, [tm EXCEPT !.cpuThrottled = metric.Value])

\* the loop body without the check of the container name
parseOneMetric_NoNameCheck(metricName, metric, parsed) ==
    LET name == LabelValue(metric.Label, {"container", "container_name"})
        namespace == LabelValue(metric.Label, {"namespace"})
        podName == LabelValue(metric.Label, {"pod", "pod_name"})
        metricID == <<namespace, podName, name>>
        tm == IF metricID \in DOMAIN parsed
              THEN parsed[metricID]
              ELSE [cpuThrottled |-> 0, cpuTotal |-> 0]
    IN  IF metric.IsNil
        THEN parsed
        ELSE IF metricName = ContainerCPUTotal
             THEN MapSet(parsed, metricID, [tm EXCEPT !.cpuTotal = metric.Value])
             ELSE MapSet(parsed, metricID, [tm EXCEPT !.cpuThrottled = metric.Value])

\* the body of the loop over one family's metrics (lines 217-246)
parseOneMetric(metricName, metric, parsed) ==
    LET name == LabelValue(metric.Label, {"container", "container_name"})
        namespace == LabelValue(metric.Label, {"namespace"})
        podName == LabelValue(metric.Label, {"pod", "pod_name"})
        metricID == <<namespace, podName, name>>
        tm == IF metricID \in DOMAIN parsed
              THEN parsed[metricID]
              ELSE [cpuThrottled |-> 0, cpuTotal |-> 0]
    IN  IF metric.IsNil \/ name = ""
        THEN parsed
        ELSE IF metricName = ContainerCPUTotal
             THEN MapSet(parsed, metricID, [tm EXCEPT !.cpuTotal = metric.Value])
             ELSE MapSet(parsed, metricID, [tm EXCEPT !.cpuThrottled = metric.Value])

RECURSIVE parseFamilyMetrics(_, _, _, _)
parseFamilyMetrics(metricName, metrics, k, parsed) ==
    IF k > Len(metrics)
    THEN parsed
    ELSE parseFamilyMetrics(metricName, metrics, k + 1,
                            parseOneMetric(metricName, metrics[k], parsed))

RECURSIVE parseFamiliesFrom_SkipsFamily(_, _, _, _)
\* the range over the map passing over a family of the wrong type and going on
parseFamiliesFrom_SkipsFamily(metricFamilies, order, k, parsed) ==
    IF k > Len(order)
    THEN parsed
    ELSE LET metricFamily == metricFamilies[order[k]]
         IN  IF metricFamily.Type # "COUNTER"
             THEN parseFamiliesFrom_SkipsFamily(metricFamilies, order, k + 1, parsed)
             ELSE parseFamiliesFrom_SkipsFamily(metricFamilies, order, k + 1,
                      parseFamilyMetrics(order[k], metricFamily.Metric, 1, parsed))

RECURSIVE parseFamiliesFrom(_, _, _, _)
\* the range over the map, visiting the families in the given order
parseFamiliesFrom(metricFamilies, order, k, parsed) ==
    IF k > Len(order)
    THEN parsed
    ELSE LET metricFamily == metricFamilies[order[k]]
         IN  IF metricFamily.Type # "COUNTER"
             THEN parsed
             ELSE parseFamiliesFrom(metricFamilies, order, k + 1,
                      parseFamilyMetrics(order[k], metricFamily.Metric, 1, parsed))

\* parseMetricFamilies for one iteration order of the map
parseMetricFamilies(metricFamilies, order) ==
    parseFamiliesFrom(metricFamilies, order, 1, << >>)

\* the visiting orders a range over the map can take
MapOrders(metricFamilies) ==
    LET names == DOMAIN metricFamilies
        n == Cardinality(names)
    IN  {o \in [1..n -> names] : \A a, b \in 1..n : a # b => o[a] # o[b]}

RECURSIVE SetToSeq(_)
SetToSeq(S) ==
    IF S = {} THEN << >>
    ELSE LET x == CHOOSE y \in S : TRUE IN <<x>> \o SetToSeq(S \ {x})

RECURSIVE throttlingEntries(_, _, _, _)
throttlingEntries(parsedMetrics, ids, k, timestamp) ==
    IF k > Len(ids)
    THEN << >>
    ELSE genThrottlingMetrics("Container", ids[k], parsedMetrics[ids[k]].cpuThrottled,
                              parsedMetrics[ids[k]].cpuTotal, timestamp)
         \o throttlingEntries(parsedMetrics, ids, k + 1, timestamp)

generateThrottlingMetrics(metricFamilies, order, timestamp) ==
    LET parsedMetrics == parseMetricFamilies(metricFamilies, order)
    IN  throttlingEntries(parsedMetrics, SetToSeq(DOMAIN parsedMetrics), 1, timestamp)

(* -------------------- the kubelet's answers (inputs) ------------------- *)
NodeNames == <<"n1", "n2", "n3", "n4">>

NamespaceNames == <<"ns1", "ns2", "ns3", "ns4">>

\* the api.Node handed over in the task's node list
ApiNode(n) == [Name |-> NodeNames[n]]

CpuFrequencyAnswer(n) == 2000 + n

\* a node with every optional statistic present; its second container has no memory data
RichSummary(n) ==
    [Node |-> [NodeName |-> NodeNames[n],
               UsageNanoCores |-> 2000000000,
               WorkingSetBytes |-> 536870912, AvailableBytes |-> 536870912,
               FsCapacityBytes |-> 209715200, FsUsedBytes |-> 104857600,
               FsAvailableBytes |-> 104857600,
               ImageFsCapacityBytes |-> 209715200, ImageFsUsedBytes |-> 52428800,
               ImageFsAvailableBytes |-> 157286400],
     Pods |-> << [PodRef |-> [Namespace |-> NamespaceNames[n], Name |-> "p"],
                  Containers |-> << [Name |-> "c1", UsageNanoCores |-> 1000000000,
                                     WorkingSetBytes |-> 2048],
                                    [Name |-> "c2", UsageNanoCores |-> 500000000,
                                     WorkingSetBytes |-> Nil] >>,
                  EphemeralCapacityBytes |-> 10485760, EphemeralUsedBytes |-> 1048576,
                  VolumeStats |-> << [Name |-> "v", CapacityBytes |-> 2097152,
                                      UsedBytes |-> 1048576] >>] >>]

\* a node whose optional statistics are mostly absent
SparseSummary(n) ==
    [Node |-> [NodeName |-> NodeNames[n],
               UsageNanoCores |-> Nil,
               WorkingSetBytes |-> 1048576, AvailableBytes |-> Nil,
               FsCapacityBytes |-> Nil, FsUsedBytes |-> Nil, FsAvailableBytes |-> Nil,
               ImageFsCapacityBytes |-> Nil, ImageFsUsedBytes |-> Nil,
               ImageFsAvailableBytes |-> Nil],
     Pods |-> << [PodRef |-> [Namespace |-> NamespaceNames[n], Name |-> "p"],
                  Containers |-> << [Name |-> "c1", UsageNanoCores |-> 1000000000,
                                     WorkingSetBytes |-> 1024] >>,
                  EphemeralCapacityBytes |-> Nil, EphemeralUsedBytes |-> Nil,
                  VolumeStats |-> << >>] >>]

\* an image filesystem that reports its used bytes and not its available bytes
HalfImageFsSummary(n) ==
    [Node |-> [SparseSummary(n).Node EXCEPT !.ImageFsCapacityBytes = 209715200,
                                            !.ImageFsUsedBytes = 52428800],
     Pods |-> << >>]

\* the summaries GetSummary may answer for node n
SummaryAnswers(n) ==
    << IF n % 2 = 1 THEN RichSummary(n) ELSE SparseSummary(n), HalfImageFsSummary(n) >>

\* the eviction thresholds GetKubeletThresholds answers for node n
ThresholdsAnswer(n) ==
    IF n % 2 = 1
    THEN << [Signal |-> "memory.available",
             Value |-> [Percentage |-> 0, Quantity |-> 209715200]],
            [Signal |-> "nodefs.available",
             Value |-> [Percentage |-> 150, Quantity |-> 0]],
            [Signal |-> "imagefs.available",
             Value |-> [Percentage |-> 20, Quantity |-> 0]] >>
    ELSE << >>

ContainerLabels(n, c) ==
    << <<"container", c>>, <<"namespace", NamespaceNames[n]>>, <<"pod", "p">> >>

\* the counter families GetCPUThrottlingMetrics answers for node n
FamiliesAnswer(n) ==
    IF n % 2 = 1
    THEN (ContainerCPUTotal :> [Type |-> "COUNTER", Metric |->
              << [IsNil |-> FALSE, Label |-> ContainerLabels(n, "c1"), Value |-> 10],
                 [IsNil |-> FALSE,
                  Label |-> << <<"namespace", NamespaceNames[n]>>, <<"pod", "p">> >>,
                  Value |-> 40] >>])
         @@ (ContainerCPUThrottledTotal :> [Type |-> "COUNTER", Metric |->
              << [IsNil |-> FALSE, Label |-> ContainerLabels(n, "c1"), Value |-> 5] >>])
    ELSE (ContainerCPUThrottledTotal :> [Type |-> "COUNTER", Metric |->
              << [IsNil |-> FALSE, Label |-> ContainerLabels(n, "c1"), Value |-> 3] >>])

\* the node an entity key of these answers belongs to
KeyNode(key) ==
    LET h == IF key[1] \in {"App", "Vol"} THEN key[2] ELSE key[1]
    IN  CHOOSE n \in 1..Len(NodeNames) : h \in {NodeNames[n], NamespaceNames[n]}

(* ------------------------------ the monitor --------------------------- *)
NoTaskData == [failed |-> {}, cacheUsed |-> FALSE, summary |-> 0, stopped |-> FALSE]

NoHist ==
    [spawned |-> 0,
     scrapes |-> [n \in Nodes |-> 0],
     calls |-> [n \in Nodes |-> {}],
     received |-> FALSE,
     anyChecked |-> FALSE,
     stopEarly |-> FALSE,
     lateWrite |-> [t \in Nodes |-> FALSE]]

\* make(chan struct{}, 1)
NewStopCh == [buf |-> 0, closed |-> FALSE]

\* the monitor runs as a whole: no function is exercised on its own
NoProbe == [kind |-> "none"]

\* NewKubeletMonitor: a fresh sink and stop channel, no node list yet
Init ==
    /\ isFullDiscovery \in BOOLEAN
    /\ pvGate \in BOOLEAN
    /\ nodeList = << >>
    /\ metricSink = {}
    /\ stopCh = NewStopCh
    /\ wg = 0
    /\ callerPc = "idle"
    /\ spawnIdx = 0
    /\ rrsRet = "none"
    /\ taskPc = [t \in Nodes |-> "none"]
    /\ taskNode = [t \in Nodes |-> 0]
    /\ taskData = [t \in Nodes |-> NoTaskData]
    /\ stopPc = [s \in Stoppers |-> "idle"]
    /\ fault = "none"
    /\ hist = NoHist
    /\ probe = NoProbe

\* the history after task t handed the entries to the sink, having failed the fetches in failed
Wrote(h, t, entries, failed) ==
    [h EXCEPT !.lateWrite[t] = @ \/ (entries # << >> /\ failed # {})]

\* the history after task t called the client functions in names for its node
Called(h, t, names) == [h EXCEPT !.calls[taskNode[t]] = @ \cup names]

\* ReceiveTask with a reset that keeps the sink of the cycle before
ReceiveTask_KeepsSink ==
    /\ fault = "none"
    /\ callerPc = "idle"
    /\ \E n \in 0..MaxNodes : nodeList' = [k \in 1..n |-> k]
    /\ metricSink' = metricSink
    /\ stopCh' = NewStopCh
    /\ stopPc' = [s \in Stoppers |-> IF stopPc[s] = "blocked" THEN "stale" ELSE stopPc[s]]
    /\ taskPc' = [t \in Nodes |-> "none"]
    /\ taskNode' = [t \in Nodes |-> 0]
    /\ taskData' = [t \in Nodes |-> NoTaskData]
    /\ rrsRet' = "none"
    /\ hist' = [NoHist EXCEPT !.received = TRUE]
    /\ UNCHANGED <<probe, isFullDiscovery, pvGate, wg, callerPc, spawnIdx, fault>>

\* ReceiveTask with a reset that keeps the stop channel of the cycle before
ReceiveTask_KeepsChannel ==
    /\ fault = "none"
    /\ callerPc = "idle"
    /\ \E n \in 0..MaxNodes : nodeList' = [k \in 1..n |-> k]
    /\ metricSink' = {}
    /\ stopCh' = stopCh
    /\ stopPc' = stopPc
    /\ taskPc' = [t \in Nodes |-> "none"]
    /\ taskNode' = [t \in Nodes |-> 0]
    /\ taskData' = [t \in Nodes |-> NoTaskData]
    /\ rrsRet' = "none"
    /\ hist' = [NoHist EXCEPT !.received = TRUE]
    /\ UNCHANGED <<probe, isFullDiscovery, pvGate, wg, callerPc, spawnIdx, fault>>

\* ReceiveTask: reset() replaces the sink and the stop channel, then the node list is set.
\* A sender still blocked on the replaced channel stays blocked on it.
ReceiveTask ==
    /\ fault = "none"
    /\ callerPc = "idle"
    /\ \E n \in 0..MaxNodes : nodeList' = [k \in 1..n |-> k]
    /\ metricSink' = {}
    /\ stopCh' = NewStopCh
    /\ stopPc' = [s \in Stoppers |-> IF stopPc[s] = "blocked" THEN "stale" ELSE stopPc[s]]
    /\ taskPc' = [t \in Nodes |-> "none"]
    /\ taskNode' = [t \in Nodes |-> 0]
    /\ taskData' = [t \in Nodes |-> NoTaskData]
    /\ rrsRet' = "none"
    /\ hist' = [NoHist EXCEPT !.received = TRUE]
    /\ UNCHANGED <<probe, isFullDiscovery, pvGate, wg, callerPc, spawnIdx, fault>>

\* the guard of line 90 left out
NodeListInvalid_NoCheck == FALSE

\* the guard of line 90
NodeListInvalid == Len(nodeList) = 0

\* the deferred close(m.stopCh) of RetrieveResourceStat returning ret: closing a
\* closed channel panics; closing wakes every blocked sender, which then panics
DeferredClose(ret) ==
    IF stopCh.closed
    THEN /\ fault' = "close of closed channel"
         /\ UNCHANGED <<stopCh, stopPc, rrsRet, callerPc>>
    ELSE /\ stopCh' = [stopCh EXCEPT !.closed = TRUE]
         /\ stopPc' = [s \in Stoppers |->
                          IF stopPc[s] = "blocked" THEN "panicking" ELSE stopPc[s]]
         /\ rrsRet' = ret
         /\ callerPc' = "idle"
         /\ UNCHANGED fault

\* Do with an empty node list: RetrieveResourceStat returns the error at line 91
RetrieveEmpty ==
    /\ fault = "none"
    /\ callerPc = "idle"
    /\ NodeListInvalid
    /\ DeferredClose("error")
    /\ UNCHANGED <<probe, isFullDiscovery, pvGate, nodeList, metricSink, wg, spawnIdx, taskPc,
                   taskNode, taskData, hist>>

\* Do with a node list: m.wg.Add(len(m.nodeList)), then the loop begins
RetrieveStart ==
    /\ fault = "none"
    /\ callerPc = "idle"
    /\ ~NodeListInvalid
    /\ wg' = wg + Len(nodeList)
    /\ callerPc' = IF Len(nodeList) = 0 THEN "waiting" ELSE "spawning"
    /\ spawnIdx' = 0
    /\ rrsRet' = "none"
    /\ taskPc' = [t \in Nodes |-> "none"]
    /\ taskNode' = [t \in Nodes |-> 0]
    /\ taskData' = [t \in Nodes |-> NoTaskData]
    /\ hist' = [NoHist EXCEPT !.received = hist.received, !.anyChecked = hist.anyChecked,
                            !.stopEarly = hist.stopEarly]
    /\ UNCHANGED <<probe, isFullDiscovery, pvGate, nodeList, metricSink, stopCh, stopPc, fault>>

\* the goroutine reading the loop variable instead of its own argument
SpawnedNode_LoopVariable(k) == nodeList[Len(nodeList)]

\* the node the goroutine started at list position k works on: go func(n){...}(node)
SpawnedNode(k) == nodeList[k]

\* one iteration of the for-range of line 95: a goroutine is started for the element
Spawn ==
    /\ fault = "none"
    /\ callerPc = "spawning"
    /\ spawnIdx < Len(nodeList)
    /\ spawnIdx' = spawnIdx + 1
    /\ taskPc' = [taskPc EXCEPT ![spawnIdx + 1] = "select"]
    /\ taskNode' = [taskNode EXCEPT ![spawnIdx + 1] = SpawnedNode(spawnIdx + 1)]
    /\ callerPc' = IF spawnIdx + 1 = Len(nodeList) THEN "waiting" ELSE "spawning"
    /\ hist' = [hist EXCEPT !.spawned = @ + 1]
    /\ UNCHANGED <<probe, isFullDiscovery, pvGate, nodeList, metricSink, stopCh, wg, rrsRet,
                   taskData, stopPc, fault>>

\* no barrier: the caller goes on while tasks run
WaitReturns_NoBarrier == TRUE

\* m.wg.Wait() returns
WaitReturns == wg = 0

\* a task's failure handed back as the cycle's error
RetrieveResult_PropagatesFailure ==
    IF \E t \in Nodes : taskData[t].failed # {} THEN "error" ELSE "nil"

\* the value of the return at line 109
RetrieveResult == "nil"

\* RetrieveResourceStat past the barrier: return nil, with the deferred close
RetrieveReturn ==
    /\ fault = "none"
    /\ callerPc = "waiting"
    /\ WaitReturns
    /\ DeferredClose(RetrieveResult)
    /\ UNCHANGED <<probe, isFullDiscovery, pvGate, nodeList, metricSink, wg, spawnIdx, taskPc,
                   taskNode, taskData, hist>>

(* ---------------------------- the node tasks -------------------------- *)
\* the goroutine of task t returns: its deferred m.wg.Done() runs
TaskEnds(t) ==
    /\ taskPc' = [taskPc EXCEPT ![t] = "done"]
    /\ wg' = wg - 1

\* case <-m.stopCh is ready: the channel holds a value or is closed
StopChReady == stopCh.buf > 0 \/ stopCh.closed

\* select takes the stop case: the task returns without scraping. Receiving the
\* buffered value lets a sender blocked on the full channel complete its send.
TaskStopped(t) ==
    /\ fault = "none"
    /\ taskPc[t] = "select"
    /\ StopChReady
    /\ IF stopCh.buf > 0 /\ \E s \in Stoppers : stopPc[s] = "blocked"
       THEN /\ \E s \in Stoppers :
                  /\ stopPc[s] = "blocked"
                  /\ stopPc' = [stopPc EXCEPT ![s] = "idle"]
            /\ UNCHANGED stopCh
       ELSE /\ stopCh' = [stopCh EXCEPT !.buf = 0]
            /\ UNCHANGED stopPc
    /\ TaskEnds(t)
    /\ taskData' = [taskData EXCEPT ![t].stopped = TRUE]
    /\ hist' = [hist EXCEPT !.anyChecked = TRUE]
    /\ UNCHANGED <<probe, isFullDiscovery, pvGate, nodeList, metricSink, callerPc, spawnIdx,
                   rrsRet, taskNode, fault>>

\* select takes the default case: scrapeKubelet(n) is entered
TaskProceeds(t) ==
    /\ fault = "none"
    /\ taskPc[t] = "select"
    /\ ~StopChReady
    /\ taskPc' = [taskPc EXCEPT ![t] = IF isFullDiscovery THEN "cpufreq" ELSE "summary"]
    /\ hist' = [hist EXCEPT !.anyChecked = TRUE, !.scrapes[taskNode[t]] = @ + 1]
    /\ UNCHANGED <<probe, isFullDiscovery, pvGate, nodeList, metricSink, stopCh, wg, callerPc,
                   spawnIdx, rrsRet, taskNode, taskData, stopPc, fault>>

\* the return of the summary error branch left out
FetchFailureReturns_NotSummary(what) == what \in {"cpufreq", "ip"}

\* whether the error branch of a fetch returns from scrapeKubelet
FetchFailureReturns(what) == what \in {"cpufreq", "ip", "summary"}

\* an error branch that resets the monitor's sink
SinkAfterFailure_Reset(sink) == {}

\* the sink as an error branch that returns leaves it
SinkAfterFailure(sink) == sink

\* an error branch: the failure is logged; the task returns where the branch does
FetchFails(t, what, calls) ==
    /\ taskData' = [taskData EXCEPT ![t].failed = @ \cup {what}]
    /\ hist' = Called(hist, t, calls)
    /\ metricSink' = SinkAfterFailure(metricSink)
    /\ TaskEnds(t)

\* lines 117-124: GetNodeCpuFrequency, then parseNodeCpuFreq
TaskCpuFreq(t) ==
    /\ fault = "none"
    /\ taskPc[t] = "cpufreq"
    /\ \E ok \in BOOLEAN :
          IF ~ok /\ FetchFailureReturns("cpufreq")
          THEN FetchFails(t, "cpufreq", {"GetNodeCpuFrequency"})
          ELSE LET entries == parseNodeCpuFreq(ApiNode(taskNode[t]),
                                               CpuFrequencyAnswer(taskNode[t]))
                   failed == taskData[t].failed \cup (IF ok THEN {} ELSE {"cpufreq"})
               IN  /\ metricSink' = AddNewMetricEntries(metricSink, entries)
                   /\ hist' = Wrote(Called(hist, t, {"GetNodeCpuFrequency"}), t, entries,
                                    failed)
                   /\ taskData' = [taskData EXCEPT ![t].failed = failed]
                   /\ taskPc' = [taskPc EXCEPT ![t] = "summary"]
                   /\ UNCHANGED wg
    /\ UNCHANGED <<probe, isFullDiscovery, pvGate, nodeList, stopCh, callerPc, spawnIdx, rrsRet,
                   taskNode, stopPc, fault>>

\* the return of the sampling branch left out
CacheHitAbandons_Never(full) == FALSE

\* the cache hit taken as a failure in both modes
CacheHitAbandons_Always(full) == TRUE

\* whether a cache hit makes the task give the node up for this cycle (lines 139-147)
CacheHitAbandons(full) == ~full

\* lines 126-148: GetNodeIPForMonitor, GetSummary, HasCacheBeenUsed
TaskSummary(t) ==
    /\ fault = "none"
    /\ taskPc[t] = "summary"
    /\ \/ /\ FetchFailureReturns("ip")
          /\ FetchFails(t, "ip", {})
       \/ /\ FetchFailureReturns("summary")
          /\ FetchFails(t, "summary", {"GetSummary"})
       \/ \E ix \in 1..Len(SummaryAnswers(taskNode[t])), ok, cache \in BOOLEAN :
             LET failed == taskData[t].failed \cup (IF ok THEN {} ELSE {"summary"})
                 calls == {"GetSummary", "HasCacheBeenUsed"}
                 cacheUsedMetric ==
                     << NewEntityStateMetric("Node", NodeKeyFunc(ApiNode(taskNode[t])),
                                             "NodeCacheUsed", 1) >>
                 entries == IF cache /\ isFullDiscovery THEN cacheUsedMetric ELSE << >>
             IN  /\ ok \/ ~FetchFailureReturns("summary")
                 /\ taskData' = [taskData EXCEPT ![t].failed = failed,
                                                 ![t].cacheUsed = cache,
                                                 ![t].summary = ix]
                 /\ metricSink' = AddNewMetricEntries(metricSink, entries)
                 /\ hist' = Wrote(Called(hist, t, calls), t, entries, failed)
                 /\ IF cache /\ CacheHitAbandons(isFullDiscovery)
                    THEN TaskEnds(t)
                    ELSE /\ taskPc' = [taskPc EXCEPT ![t] = "thresholds"]
                         /\ UNCHANGED wg
    /\ UNCHANGED <<probe, isFullDiscovery, pvGate, nodeList, stopCh, callerPc, spawnIdx, rrsRet,
                   taskNode, stopPc, fault>>

\* lines 150-153: GetKubeletThresholds; a failure is logged and the task goes on
TaskThresholds(t) ==
    /\ fault = "none"
    /\ taskPc[t] = "thresholds"
    /\ \E ok \in BOOLEAN :
          IF ~ok /\ FetchFailureReturns("thresholds")
          THEN FetchFails(t, "thresholds", {"GetKubeletThresholds"})
          ELSE /\ taskData' = [taskData EXCEPT ![t].failed =
                                   @ \cup (IF ok THEN {} ELSE {"thresholds"})]
               /\ hist' = Called(hist, t, {"GetKubeletThresholds"})
               /\ taskPc' = [taskPc EXCEPT ![t] = "throttling"]
               /\ UNCHANGED <<wg, metricSink>>
    /\ UNCHANGED <<probe, isFullDiscovery, pvGate, nodeList, stopCh, callerPc, spawnIdx, rrsRet,
                   taskNode, stopPc, fault>>

\* line 164: the clock reading of the task scraping node n, in milliseconds
currentMilliSec(n) == 1000 + n

\* the thresholds slice the task holds: nil after a failed fetch
HeldThresholds(n, failed) ==
    IF "thresholds" \in failed THEN << >> ELSE ThresholdsAnswer(n)

\* the families map the task holds: nil after a failed fetch
HeldFamilies(n, failed) ==
    IF "throttling" \in failed THEN << >> ELSE FamiliesAnswer(n)

\* the generators called with the node's statistics first
GeneratedEntries_NodeFirst(n, ix, failed, order, timestamp, full, gate) ==
    parseNodeStats(SummaryAnswers(n)[ix].Node, HeldThresholds(n, failed), timestamp, full)
    \o generateThrottlingMetrics(HeldFamilies(n, failed), order, timestamp)
    \o parsePodStats(SummaryAnswers(n)[ix].Pods, timestamp, full, gate)

\* the generators called as in a full discovery whatever the cycle's mode
GeneratedEntries_FullAlways(n, ix, failed, order, timestamp, full, gate) ==
    generateThrottlingMetrics(HeldFamilies(n, failed), order, timestamp)
    \o parseNodeStats(SummaryAnswers(n)[ix].Node, HeldThresholds(n, failed), timestamp, TRUE)
    \o parsePodStats(SummaryAnswers(n)[ix].Pods, timestamp, TRUE, gate)

\* lines 165-167 for node n: what the three generators write, in the order written
GeneratedEntries(n, ix, failed, order, timestamp, full, gate) ==
    generateThrottlingMetrics(HeldFamilies(n, failed), order, timestamp)
    \o parseNodeStats(SummaryAnswers(n)[ix].Node, HeldThresholds(n, failed), timestamp, full)
    \o parsePodStats(SummaryAnswers(n)[ix].Pods, timestamp, full, gate)

\* lines 155-169: GetCPUThrottlingMetrics (a failure is logged and the task goes
\* on), then the generators; a nil dereference in parseNodeStats ends the process
\* after the throttling entries were written
TaskGenerate(t) ==
    /\ fault = "none"
    /\ taskPc[t] = "throttling"
    /\ \E ok \in BOOLEAN :
          IF ~ok /\ FetchFailureReturns("throttling")
          THEN /\ FetchFails(t, "throttling", {"GetCPUThrottlingMetrics"})
               /\ UNCHANGED fault
          ELSE LET n == taskNode[t]
                   failed == taskData[t].failed \cup (IF ok THEN {} ELSE {"throttling"})
                   families == HeldFamilies(n, failed)
                   nodeStats == SummaryAnswers(n)[taskData[t].summary].Node
               IN  \E order \in MapOrders(families) :
                      LET entries ==
                              IF parseNodeStatsFaults(nodeStats)
                              THEN generateThrottlingMetrics(families, order, currentMilliSec(n))
                              ELSE GeneratedEntries(n, taskData[t].summary, failed, order,
                                                    currentMilliSec(n), isFullDiscovery,
                                                    pvGate)
                      IN  /\ taskData' = [taskData EXCEPT ![t].failed = failed]
                          /\ metricSink' = AddNewMetricEntries(metricSink, entries)
                          /\ hist' = Wrote(Called(hist, t, {"GetCPUThrottlingMetrics"}), t,
                                           entries, failed)
                          /\ IF parseNodeStatsFaults(nodeStats)
                             THEN /\ fault' = "nil pointer dereference"
                                  /\ UNCHANGED <<taskPc, wg>>
                             ELSE /\ TaskEnds(t)
                                  /\ UNCHANGED fault
    /\ UNCHANGED <<probe, isFullDiscovery, pvGate, nodeList, stopCh, callerPc, spawnIdx, rrsRet,
                   taskNode, stopPc>>

(* -------------------------------- Stop -------------------------------- *)
\* a Stop that ends the tasks it finds between their stop check and their return
StopSends_Interrupts(s) ==
    /\ fault = "none"
    /\ stopPc[s] = "idle"
    /\ ~stopCh.closed
    /\ stopCh.buf = 0
    /\ stopCh' = [stopCh EXCEPT !.buf = 1]
    /\ hist' = [hist EXCEPT !.stopEarly = @ \/ (hist.received /\ ~hist.anyChecked)]
    /\ taskPc' = [t \in Nodes |->
                     IF taskPc[t] \in {"cpufreq", "summary", "thresholds", "throttling"}
                     THEN "done" ELSE taskPc[t]]
    /\ wg' = wg - Cardinality({t \in Nodes : taskPc'[t] # taskPc[t]})
    /\ UNCHANGED <<probe, isFullDiscovery, pvGate, nodeList, metricSink, callerPc, spawnIdx,
                   rrsRet, taskNode, taskData, stopPc, fault>>

\* Stop finds room in the channel's buffer: the send completes and Stop returns
StopSends(s) ==
    /\ fault = "none"
    /\ stopPc[s] = "idle"
    /\ ~stopCh.closed
    /\ stopCh.buf = 0
    /\ stopCh' = [stopCh EXCEPT !.buf = 1]
    /\ hist' = [hist EXCEPT !.stopEarly = @ \/ (hist.received /\ ~hist.anyChecked)]
    /\ UNCHANGED <<probe, isFullDiscovery, pvGate, nodeList, metricSink, wg, callerPc, spawnIdx,
                   rrsRet, taskPc, taskNode, taskData, stopPc, fault>>

\* Stop finds the buffer of one full: the send blocks
StopBlocks(s) ==
    /\ fault = "none"
    /\ stopPc[s] = "idle"
    /\ ~stopCh.closed
    /\ stopCh.buf = 1
    /\ stopPc' = [stopPc EXCEPT ![s] = "blocked"]
    /\ UNCHANGED <<probe, isFullDiscovery, pvGate, nodeList, metricSink, stopCh, wg, callerPc,
                   spawnIdx, rrsRet, taskPc, taskNode, taskData, fault, hist>>

\* Stop on the channel RetrieveResourceStat has closed: send on closed channel
StopOnClosed(s) ==
    /\ fault = "none"
    /\ stopPc[s] = "idle"
    /\ stopCh.closed
    /\ fault' = "send on closed channel"
    /\ UNCHANGED <<probe, isFullDiscovery, pvGate, nodeList, metricSink, stopCh, wg, callerPc,
                   spawnIdx, rrsRet, taskPc, taskNode, taskData, stopPc, hist>>

\* a sender woken by the close of the channel it was blocked on panics
StopPanics(s) ==
    /\ fault = "none"
    /\ stopPc[s] = "panicking"
    /\ fault' = "send on closed channel"
    /\ UNCHANGED <<probe, isFullDiscovery, pvGate, nodeList, metricSink, stopCh, wg, callerPc,
                   spawnIdx, rrsRet, taskPc, taskNode, taskData, stopPc, hist>>

(* ---------------------------- specification --------------------------- *)
Next ==
    \/ ReceiveTask
    \/ RetrieveEmpty
    \/ RetrieveStart
    \/ Spawn
    \/ RetrieveReturn
    \/ \E t \in Nodes : TaskStopped(t)
    \/ \E t \in Nodes : TaskProceeds(t)
    \/ \E t \in Nodes : TaskCpuFreq(t)
    \/ \E t \in Nodes : TaskSummary(t)
    \/ \E t \in Nodes : TaskThresholds(t)
    \/ \E t \in Nodes : TaskGenerate(t)
    \/ \E s \in Stoppers : StopSends(s)
    \/ \E s \in Stoppers : StopBlocks(s)
    \/ \E s \in Stoppers : StopOnClosed(s)
    \/ \E s \in Stoppers : StopPanics(s)

Spec == Init /\ [][Next]_vars

(* ------------------------------ properties ---------------------------- *)
\* the entries of the sink that belong to node n
EntriesOfNode(n) == {e \in metricSink : KeyNode(e.key) = n}

\* the goroutines of the current RetrieveResourceStat
Spawned == {t \in Nodes : taskPc[t] # "none"}

Finished(t) == taskPc[t] = "done"

\* the answers a task can hold when it reaches the generators: node, summary
\* answer, failed fetches among thresholds and throttling, mode, gate
GeneratedKeys ==
    UNION {{<<n, ix, failed, full, gate>> :
                ix \in 1..Len(SummaryAnswers(n)),
                failed \in SUBSET {"thresholds", "throttling"},
                full \in BOOLEAN, gate \in BOOLEAN} : n \in Nodes}

\* what the three generators write for each of these answers, in the order
\* written; an explicit table, so that each row is computed once
GeneratedTable ==
    [k \in GeneratedKeys |->
        GeneratedEntries(k[1], k[2], k[3],
                         CHOOSE o \in MapOrders(HeldFamilies(k[1], k[3])) : TRUE,
                         currentMilliSec(k[1]), k[4], k[5])] @@ << >>

\* what the generators write for task t's answers when the gate is as given
GeneratedFor(t, gate) ==
    GeneratedTable[<<taskNode[t], taskData[t].summary,
                     taskData[t].failed \cap {"thresholds", "throttling"},
                     isFullDiscovery, gate>>]

\* the CPU-used and memory-used entries of node n are in the sink
HasNodeUsed(n) ==
    \A mtype \in {"CPU", "Memory"} :
        \E e \in metricSink :
            /\ e.etype = "Node" /\ e.key = <<NodeNames[n]>>
            /\ e.mtype = mtype /\ e.role = "Used"

\* what task t writes, from what the client answered to t alone, one element
\* for each write and in the order written
OwnWrites(t) ==
    LET n == taskNode[t]
        d == taskData[t]
        freq == IF isFullDiscovery /\ taskPc[t] \notin {"select", "cpufreq"}
                   /\ ~d.stopped /\ "cpufreq" \notin d.failed
                THEN parseNodeCpuFreq(ApiNode(n), CpuFrequencyAnswer(n)) ELSE << >>
        cache == IF isFullDiscovery /\ d.cacheUsed
                 THEN << NewEntityStateMetric("Node", <<NodeNames[n]>>, "NodeCacheUsed", 1) >>
                 ELSE << >>
        gen == IF Finished(t) /\ d.summary # 0 /\ ~(d.cacheUsed /\ ~isFullDiscovery)
               THEN GeneratedFor(t, pvGate)
               ELSE << >>
    IN  freq \o cache \o gen

\* the sink holding what task t writes and nothing else
OwnEntries(t) == AddNewMetricEntries({}, OwnWrites(t))

\* C1: RetrieveResourceStat returns only after every task it spawned has
\* finished: whenever the caller is outside it no task is running and the wait
\* group is at zero, and no entry is added to the sink while the caller is outside.
C1_CompletionBarrier ==
    /\ [](callerPc = "idle" => (wg = 0 /\ \A t \in Spawned : Finished(t)))
    /\ [][callerPc = "idle" => metricSink' \subseteq metricSink]_vars

C1_Witness ==
    /\ callerPc = "idle" /\ rrsRet = "nil"
    /\ Len(nodeList) = 2
    /\ \A t \in 1..2 : Finished(t) /\ EntriesOfNode(taskNode[t]) # {}

\* C2: if Stop is called after ReceiveTask and before any task made its stop
\* check, then whatever the size of the node list every task is a no-op: when
\* RetrieveResourceStat has returned, no client call was made, the sink is
\* empty and the result is nil.
C2_StopBeforeChecksSkipsAll ==
    (hist.stopEarly /\ Len(nodeList) > 0 /\ rrsRet # "none") =>
        /\ rrsRet = "nil"
        /\ metricSink = {}
        /\ \A n \in Nodes : hist.calls[n] = {} /\ hist.scrapes[n] = 0

\* C3: Stop is idempotent: no call of Stop ever blocks and none faults.
C3_StopNeverBlocksNorFaults ==
    /\ \A s \in Stoppers : stopPc[s] = "idle"
    /\ fault # "send on closed channel"

\* C4: for a node list of n elements RetrieveResourceStat spawns exactly n tasks,
\* task k for list element k, and scrapeKubelet runs at most once per element.
C4_OneTaskPerNode ==
    /\ hist.spawned <= Len(nodeList)
    /\ (callerPc = "waiting" \/ rrsRet = "nil") => hist.spawned = Len(nodeList)
    /\ Cardinality(Spawned) = hist.spawned
    /\ \A t \in Spawned : taskNode[t] = nodeList[t]
    /\ \A n \in Nodes : hist.scrapes[n] <= 1

C4_Witness ==
    /\ rrsRet = "nil" /\ Len(nodeList) = 2 /\ hist.spawned = 2
    /\ \A n \in 1..2 : hist.scrapes[n] = 1

\* C5: failure isolation: when a fetch has failed for one node, the entries in
\* the sink for every other node whose task has finished are exactly the ones
\* that task writes from its own answers.
C5_FailureIsolation ==
    \A j \in Spawned :
        (Finished(j) /\ \E i \in Spawned : i # j /\ taskData[i].failed # {}) =>
            EntriesOfNode(taskNode[j]) = OwnEntries(j)

C5_Witness ==
    \E i, j \in Spawned :
        /\ i # j /\ Finished(i) /\ Finished(j)
        /\ "summary" \in taskData[i].failed
        /\ taskData[j].failed = {} /\ HasNodeUsed(taskNode[j])
        /\ EntriesOfNode(taskNode[j]) = OwnEntries(j)

\* C6: with an empty node list RetrieveResourceStat returns an error, having
\* spawned no task and called no client function, and the sink is empty.
C6_EmptyListFailsFast ==
    /\ (Len(nodeList) = 0 /\ rrsRet # "none") => rrsRet = "error"
    /\ rrsRet = "error" =>
          /\ Spawned = {} /\ hist.spawned = 0 /\ wg = 0
          /\ \A n \in Nodes : hist.calls[n] = {} /\ hist.scrapes[n] = 0
          /\ metricSink = {}

C6_Witness == rrsRet = "error" /\ hist.received /\ Len(nodeList) = 0

\* C7: for every non-empty node list RetrieveResourceStat returns nil, whatever
\* fetches failed, cache hits occurred or tasks were stopped.
C7_NonEmptyListReturnsNil ==
    (Len(nodeList) > 0 /\ rrsRet # "none") => rrsRet = "nil"

C7_Witness ==
    /\ rrsRet = "nil"
    /\ \E t \in Spawned : taskData[t].stopped
    /\ \E t \in Spawned : taskData[t].cacheUsed /\ taskData[t].failed # {}

\* no task of the cycle took the stop case
NoStopSignal == \A t \in Spawned : ~taskData[t].stopped

\* every fetch of task t succeeded and its node was not given up as a cache hit
AllFetchesSucceeded(t) ==
    taskData[t].failed = {} /\ ~(taskData[t].cacheUsed /\ ~isFullDiscovery)

\* C8 as stated: with no stop signal the returned sink has metrics for every
\* node whose client calls all succeeded, and no entry at all for a node whose
\* summary fetch failed, in full discovery as well as in sampling.
C8_SucceededPresentFailedAbsent ==
    (rrsRet = "nil" /\ NoStopSignal) =>
        \A t \in Spawned :
            /\ AllFetchesSucceeded(t) => EntriesOfNode(taskNode[t]) # {}
            /\ "summary" \in taskData[t].failed => EntriesOfNode(taskNode[t]) = {}

\* C8 amended: with no stop signal the returned sink has the CPU-used and
\* memory-used entries of every node whose fetches all succeeded (and which was
\* not given up as a cache hit of a sampling cycle); for a node whose summary
\* fetch failed it has no entry in a sampling cycle, and in full discovery only
\* the CPU-frequency entry written before the summary was fetched.
C8_SucceededPresentFailedOnlyFreq ==
    (rrsRet = "nil" /\ NoStopSignal) =>
        \A t \in Spawned :
            /\ AllFetchesSucceeded(t) => HasNodeUsed(taskNode[t])
            /\ "summary" \in taskData[t].failed =>
                  EntriesOfNode(taskNode[t]) =
                      IF isFullDiscovery
                      THEN {NewEntityStateMetric("Node", <<NodeNames[taskNode[t]]>>,
                                                 "CpuFrequency",
                                                 CpuFrequencyAnswer(taskNode[t]))}
                      ELSE {}

C8_Witness ==
    /\ rrsRet = "nil" /\ NoStopSignal /\ isFullDiscovery
    /\ \E i, j \in Spawned :
          /\ "summary" \in taskData[i].failed
          /\ Cardinality(EntriesOfNode(taskNode[i])) = 1
          /\ taskData[j].failed = {} /\ taskData[j].cacheUsed
          /\ HasNodeUsed(taskNode[j])

\* C9 as stated: a failure of any of the four fetches ends the node's task: no
\* entry is written by a task after one of its fetches failed.
C9_AnyFetchFailureEndsTask ==
    \A t \in Spawned :
        taskData[t].failed # {} => (Finished(t) /\ ~hist.lateWrite[t])

\* C9 amended: a failure of the CPU-frequency fetch or of the summary fetch ends
\* the node's task with no entry written after it; a failure of the thresholds
\* fetch or of the throttling fetch is logged and the task goes on to write the
\* node's and pods' entries.
C9_FreqOrSummaryFailureEndsTask ==
    \A t \in Spawned :
        /\ taskData[t].failed \cap {"cpufreq", "summary"} # {} =>
              (Finished(t) /\ ~hist.lateWrite[t])
        /\ (Finished(t) /\ taskData[t].failed \cap {"thresholds", "throttling"} # {}) =>
              (hist.lateWrite[t] /\ HasNodeUsed(taskNode[t]))

C9_Witness ==
    \E i, j \in Spawned :
        /\ Finished(i) /\ taskData[i].failed = {"cpufreq"}
        /\ EntriesOfNode(taskNode[i]) = {}
        /\ Finished(j) /\ taskData[j].failed = {"thresholds", "throttling"}
        /\ hist.lateWrite[j] /\ HasNodeUsed(taskNode[j])

\* C10: in a sampling cycle a node reported as served from the cache gets no
\* entry of any kind: its task ends at the cache check with nothing written.
C10_SamplingCacheHitWritesNothing ==
    \A t \in Spawned :
        (~isFullDiscovery /\ taskData[t].cacheUsed) =>
            (Finished(t) /\ EntriesOfNode(taskNode[t]) = {})

C10_Witness ==
    /\ ~isFullDiscovery /\ rrsRet = "nil"
    /\ \E i, j \in Spawned :
          /\ taskData[i].cacheUsed /\ EntriesOfNode(taskNode[i]) = {}
          /\ ~taskData[j].cacheUsed /\ HasNodeUsed(taskNode[j])

\* what task t writes from the summary on when the node was not served from the
\* cache: the entries of the three generators for the answers t was given
EntriesPastSummary(t) == AddNewMetricEntries({}, GeneratedFor(t, pvGate))

\* the entry that marks node n as served from the kubelet client's cache
CacheUsedEntry(n) == [etype |-> "Node", key |-> <<NodeNames[n]>>,
                      mtype |-> "NodeCacheUsed", role |-> "State", val |-> Scalar(1)]

\* C11: in a full discovery a node reported as served from the cache gets a
\* NodeCacheUsed entry of value 1, and its task goes on past the cache check:
\* once finished it has written, besides that entry and the CPU-frequency entry,
\* exactly the node, throttling and pod entries the generators produce for the
\* same answers without a cache hit.
C11_FullCacheHitMarksAndGoesOn ==
    \A t \in Spawned :
        (isFullDiscovery /\ taskData[t].cacheUsed) =>
            /\ CacheUsedEntry(taskNode[t]) \in metricSink
            /\ taskPc[t] \in {"thresholds", "throttling", "done"}
            /\ Finished(t) =>
                  EntriesOfNode(taskNode[t]) \ {CacheUsedEntry(taskNode[t])} =
                      AddNewMetricEntries(EntriesPastSummary(t),
                                          parseNodeCpuFreq(ApiNode(taskNode[t]),
                                                           CpuFrequencyAnswer(taskNode[t])))

C11_Witness ==
    /\ isFullDiscovery
    /\ \E t \in Spawned :
          /\ Finished(t) /\ taskData[t].cacheUsed /\ taskData[t].failed = {}
          /\ CacheUsedEntry(taskNode[t]) \in metricSink
          /\ HasNodeUsed(taskNode[t])
          /\ \E e \in EntriesOfNode(taskNode[t]) : e.etype = "Pod"
          /\ \E e \in EntriesOfNode(taskNode[t]) : e.mtype = "VCPUThrottling"

\* a CPU-used or memory-used entry, or a container's request-used counterpart
IsUsageEntry(e) ==
    /\ e.role = "Used"
    /\ \/ e.mtype \in {"CPU", "Memory"}
       \/ e.etype = "Container" /\ e.mtype \in {"CPURequest", "MemoryRequest"}

\* a container's cumulative throttling counters
IsThrottlingEntry(e) ==
    e.role = "Used" /\ e.etype = "Container" /\ e.mtype = "VCPUThrottling"

\* C12 as stated: in a sampling cycle the only entries written to the sink are
\* CPU-used and memory-used entries (with the containers' request-used
\* counterparts); no entry of any other metric type or role is written.
C12_SamplingWritesOnlyUsage ==
    ~isFullDiscovery => \A e \in metricSink : IsUsageEntry(e)

\* C12 amended: in a sampling cycle the only entries written to the sink are
\* CPU-used and memory-used entries (with the containers' request-used
\* counterparts) and the containers' throttling counters, which are generated
\* in both modes; no capacity, available, threshold or state entry and no
\* consumer-count, storage or CPU-frequency entry is written.
C12_SamplingWritesUsageAndThrottling ==
    ~isFullDiscovery => \A e \in metricSink : IsUsageEntry(e) \/ IsThrottlingEntry(e)

C12_Witness ==
    /\ ~isFullDiscovery /\ rrsRet = "nil"
    /\ \E e \in metricSink : IsThrottlingEntry(e)
    /\ \A etype \in {"Node", "Pod", "Container", "Application"} :
          \E e \in metricSink : e.etype = etype /\ e.mtype = "CPU" /\ e.role = "Used"
    /\ \E e \in metricSink : e.etype = "Container" /\ e.mtype = "MemoryRequest"

(* ---------------- parseNodeStats exercised on its own ----------------- *)
\* the longest list of eviction thresholds the kubelet is taken to answer
MaxThresholds == 2

\* the monitor as NewKubeletMonitor leaves it, apart from its mode and its sink
MonitorConstructed ==
    /\ nodeList = << >>
    /\ stopCh = NewStopCh
    /\ wg = 0
    /\ callerPc = "idle"
    /\ spawnIdx = 0
    /\ rrsRet = "none"
    /\ taskPc = [t \in Nodes |-> "none"]
    /\ taskNode = [t \in Nodes |-> 0]
    /\ taskData = [t \in Nodes |-> NoTaskData]
    /\ stopPc = [s \in Stoppers |-> "idle"]
    /\ fault = "none"
    /\ hist = NoHist

\* eviction signals: the three the switch of parseThresholdValues knows and one it does not
SignalInputs == {"memory.available", "nodefs.available", "imagefs.available", "pid.available"}

\* threshold values: a percentage (in hundredths) or a quantity in bytes, or neither
ThresholdValueInputs ==
    {[Percentage |-> 0,   Quantity |-> 0],
     [Percentage |-> 20,  Quantity |-> 0],
     [Percentage |-> 150, Quantity |-> 0],
     [Percentage |-> 0,   Quantity |-> 52428800],
     [Percentage |-> 0,   Quantity |-> 314572800]}

ThresholdInputs ==
    UNION {[1..k -> [Signal : SignalInputs, Value : ThresholdValueInputs]] :
               k \in 0..MaxThresholds}

\* node statistics: memory absent, below 100 MiB, or 256 MiB; each filesystem
\* capacity absent or present (200 MiB for the root, 400 MiB for the images)
NodeStatsInputs ==
    {[NodeName |-> "n1", UsageNanoCores |-> Nil,
      WorkingSetBytes |-> mem[1], AvailableBytes |-> mem[2],
      FsCapacityBytes |-> fs, FsUsedBytes |-> Nil, FsAvailableBytes |-> Nil,
      ImageFsCapacityBytes |-> imagefs, ImageFsUsedBytes |-> Nil,
      ImageFsAvailableBytes |-> Nil] :
        mem \in {<<Nil, Nil>>, <<67108864, Nil>>, <<134217728, 134217728>>},
        fs \in {Nil, 209715200},
        imagefs \in {Nil, 419430400}}

ThresholdsInit ==
    /\ isFullDiscovery \in BOOLEAN
    /\ pvGate = TRUE
    /\ metricSink = {}
    /\ MonitorConstructed
    /\ probe \in [kind : {"thresholds"}, nodeStats : NodeStatsInputs,
                  thresholds : ThresholdInputs, done : {FALSE}]

\* parseNodeStats (lines 259-321) applied to the drawn statistics and thresholds
ProbeNodeStats ==
    /\ ~probe.done
    /\ metricSink' = AddNewMetricEntries(metricSink,
                         parseNodeStats(probe.nodeStats, probe.thresholds,
                                        currentMilliSec(1), isFullDiscovery))
    /\ probe' = [probe EXCEPT !.done = TRUE]
    /\ UNCHANGED <<isFullDiscovery, pvGate, nodeList, stopCh, wg, callerPc, spawnIdx,
                   rrsRet, taskPc, taskNode, taskData, stopPc, fault, hist>>

ThresholdsNext == ProbeNodeStats

SpecThresholds == ThresholdsInit /\ [][ThresholdsNext]_vars

\* the Threshold-role entries of the sink
ThresholdEntries == {e \in metricSink : e.role = "Threshold"}

\* the value of the Threshold entry written for the key and metric type
ThresholdWritten(key, mtype) ==
    (CHOOSE e \in ThresholdEntries : e.key = key /\ e.mtype = mtype).val

\* a float64 percentage strictly between 0 and 100
StrictlyInRange(v) == v.kind = "pct" /\ v.b > 0 /\ v.a > 0 /\ v.a < v.b

\* parseNodeStats has run in full discovery: the three Threshold entries are written
ThresholdsParsed ==
    /\ probe.done /\ isFullDiscovery
    /\ Cardinality(ThresholdEntries) = 3

\* C13: every Threshold-role entry written to the sink has a value strictly
\* between 0 and 100, for every combination of eviction signals and every
\* capacity value.
C13_ThresholdsStrictlyInRange ==
    \A e \in ThresholdEntries : StrictlyInRange(e.val)

\* the root-filesystem threshold as computed from the signals, before any default
ComputedRootfs ==
    ComputedThreshold(probe.thresholds, "nodefs.available",
                      OrZero(probe.nodeStats.FsCapacityBytes))

\* C14: whenever the computed root-filesystem threshold is out of range (<= 0
\* or >= 100, or no node-fs signal is present), the root-filesystem Threshold
\* entry written to the sink has value 10, whatever the memory and
\* image-filesystem signals are.
C14_RootfsFallbackIsTen ==
    (ThresholdsParsed /\ OutOfRange(ComputedRootfs)) =>
        ThresholdWritten(<<"n1">>, "VStorage") = Pct(10, 100)

\* the node's memory capacity: available plus working set, each 0 when absent
ProbeMemoryCapacity ==
    OrZero(probe.nodeStats.AvailableBytes) + OrZero(probe.nodeStats.WorkingSetBytes)

\* the memory threshold as the last memory signal of the list gives it: 0 when
\* there is none, its percentage when it has one, else its quantity over the capacity
ProbeMemoryComputed ==
    LET hits == {k \in 1..Len(probe.thresholds) :
                     probe.thresholds[k].Signal = "memory.available"}
        last == CHOOSE k \in hits : \A j \in hits : j <= k
        value == probe.thresholds[last].Value
    IN  IF hits = {} THEN Pct(0, 100)
        ELSE IF value.Percentage # 0 THEN Pct(value.Percentage, 100)
        ELSE Pct(value.Quantity, ProbeMemoryCapacity)

\* C15: whenever the computed memory threshold is <= 0 or >= 100 (or no memory
\* signal is present), the memory Threshold entry written is 100 MiB expressed
\* as a percentage of the node's memory capacity, 104857600 * 100 / capacity;
\* otherwise the computed value is written unchanged.
C15_MemoryFallbackIs100MiB ==
    ThresholdsParsed =>
        ThresholdWritten(<<"n1">>, "Memory") =
            IF PctLE0(ProbeMemoryComputed) \/ PctGE100(ProbeMemoryComputed)
            THEN Pct(104857600, ProbeMemoryCapacity)
            ELSE ProbeMemoryComputed

C15_Witness ==
    /\ ThresholdsParsed
    /\ ProbeMemoryCapacity = 268435456
    /\ ProbeMemoryComputed = Pct(314572800, 268435456)
    /\ ThresholdWritten(<<"n1">>, "Memory") = Pct(104857600, 268435456)

(* ------------ generateThrottlingMetrics exercised on its own ----------- *)
\* the most points a counter family of the two named families carries
MaxPoints == 1

\* a family name the correlator does not know
OtherFamily == "container_cpu_usage_seconds_total"

\* label sets of a point: a container under either label name, a pod-level
\* point with no container label, and one whose container label is empty
LabelInputs ==
    {<< <<"container", "c1">>, <<"namespace", "ns1">>, <<"pod", "p">> >>,
     << <<"container_name", "c2">>, <<"namespace", "ns1">>, <<"pod_name", "p">> >>,
     << <<"namespace", "ns1">>, <<"pod", "p">> >>,
     << <<"container", "">>, <<"namespace", "ns1">>, <<"pod", "p">> >>}

PointInputs == [IsNil : {FALSE}, Label : LabelInputs, Value : {5, 10}]

\* a family of the wrong type, empty or with one point of container c1, or a
\* counter family of at most max points
FamilyInputs(max) ==
    {[Type |-> "GAUGE", Metric |-> << >>]}
    \cup {[Type |-> "GAUGE", Metric |-> <<p>>] :
              p \in {q \in PointInputs : q.Label[1] = <<"container", "c1">>}}
    \cup [Type : {"COUNTER"}, Metric : UNION {[1..k -> PointInputs] : k \in 0..max}]

\* the maps GetCPUThrottlingMetrics is taken to answer: each of the two named
\* families absent or present, and possibly a family of another name
FamiliesInputs ==
    {named @@ other :
        named \in UNION {[S -> FamilyInputs(MaxPoints)] :
                             S \in SUBSET {ContainerCPUTotal, ContainerCPUThrottledTotal}},
        other \in UNION {[S -> FamilyInputs(1)] : S \in SUBSET {OtherFamily}}}

FamiliesInit ==
    /\ isFullDiscovery \in BOOLEAN
    /\ pvGate = TRUE
    /\ metricSink = {}
    /\ MonitorConstructed
    /\ probe \in [kind : {"families"}, families : FamiliesInputs, order : {<< >>},
                  result : {<< >>}, done : {FALSE}]

\* generateThrottlingMetrics (lines 172-180) applied to the drawn map, the range
\* over it taking any order; result keeps what parseMetricFamilies returned
ProbeThrottling ==
    /\ ~probe.done
    /\ \E order \in MapOrders(probe.families) :
          /\ metricSink' = AddNewMetricEntries(metricSink,
                               generateThrottlingMetrics(probe.families, order,
                                                         currentMilliSec(1)))
          /\ probe' = [probe EXCEPT !.order = order,
                                    !.result = parseMetricFamilies(probe.families, order),
                                    !.done = TRUE]
    /\ UNCHANGED <<isFullDiscovery, pvGate, nodeList, stopCh, wg, callerPc, spawnIdx,
                   rrsRet, taskPc, taskNode, taskData, stopPc, fault, hist>>

FamiliesNext == ProbeThrottling

SpecFamilies == FamiliesInit /\ [][FamiliesNext]_vars

\* whether the point carries a non-empty container name, under either label name
HasContainerLabel(metric) ==
    \E k \in 1..Len(metric.Label) :
        metric.Label[k][1] \in {"container", "container_name"} /\ metric.Label[k][2] # ""

\* the identity namespace/pod/container of a point that names its container
PointIdentity(metric) ==
    <<LabelValue(metric.Label, {"namespace"}), LabelValue(metric.Label, {"pod", "pod_name"}),
      LabelValue(metric.Label, {"container", "container_name"})>>

\* the positions of the family's points that carry the identity
PointsOf(family, id) ==
    {k \in 1..Len(family.Metric) :
         HasContainerLabel(family.Metric[k]) /\ PointIdentity(family.Metric[k]) = id}

\* the value of the family's last point that carries the identity
ValueOf(family, id) ==
    family.Metric[CHOOSE k \in PointsOf(family, id) :
                      \A j \in PointsOf(family, id) : j <= k].Value

\* the drawn map holds the two named families, both counters, and nothing else
TwoCounterFamilies ==
    /\ DOMAIN probe.families = {ContainerCPUTotal, ContainerCPUThrottledTotal}
    /\ \A nm \in DOMAIN probe.families : probe.families[nm].Type = "COUNTER"

\* the identities with a point in both named families
InBothFamilies ==
    {id \in [1..3 -> {"ns1", "p", "c1", "c2"}] :
         /\ PointsOf(probe.families[ContainerCPUTotal], id) # {}
         /\ PointsOf(probe.families[ContainerCPUThrottledTotal], id) # {}}

\* C16: for every container identity that has a point in both the total-periods
\* family and the throttled-periods family (two counter families), the result
\* maps the identity to cpuTotal = the total family's value and cpuThrottled =
\* the throttled family's value, whichever of the two families is visited first.
C16_BothFamiliesMerged ==
    (probe.done /\ TwoCounterFamilies) =>
        \A id \in InBothFamilies :
            /\ id \in DOMAIN probe.result
            /\ probe.result[id] =
                   [cpuThrottled |-> ValueOf(probe.families[ContainerCPUThrottledTotal], id),
                    cpuTotal |-> ValueOf(probe.families[ContainerCPUTotal], id)]

C16_Witness ==
    /\ probe.done /\ TwoCounterFamilies
    /\ probe.order = <<ContainerCPUThrottledTotal, ContainerCPUTotal>>
    /\ InBothFamilies = {<<"ns1", "p", "c1">>}
    /\ probe.result[<<"ns1", "p", "c1">>] = [cpuThrottled |-> 5, cpuTotal |-> 10]

\* the map without the points that name no container
RECURSIVE LabelledOnly(_)
LabelledOnly(metrics) ==
    IF metrics = << >> THEN << >>
    ELSE (IF HasContainerLabel(Head(metrics)) THEN <<Head(metrics)>> ELSE << >>)
         \o LabelledOnly(Tail(metrics))

WithoutUnlabelled(metricFamilies) ==
    [nm \in DOMAIN metricFamilies |->
        [metricFamilies[nm] EXCEPT !.Metric = LabelledOnly(@)]]

\* C17: a point with no container label, or with an empty one, contributes
\* nothing: it adds no identity to the result and changes no field of any
\* identity, so the result is the one obtained from the map without such points.
C17_UnlabelledPointIgnored ==
    probe.done =>
        /\ \A id \in DOMAIN probe.result : id[3] # ""
        /\ probe.result = parseMetricFamilies(WithoutUnlabelled(probe.families), probe.order)

C17_Witness ==
    /\ probe.done /\ TwoCounterFamilies
    /\ probe.order = <<ContainerCPUTotal, ContainerCPUThrottledTotal>>
    /\ \E m \in LabelInputs :
          /\ probe.families[ContainerCPUTotal].Metric =
                 << [IsNil |-> FALSE, Label |-> m, Value |-> 10] >>
          /\ Len(m) = 2
    /\ DOMAIN probe.result = {<<"ns1", "p", "c2">>}
    /\ probe.result[<<"ns1", "p", "c2">>] = [cpuThrottled |-> 5, cpuTotal |-> 0]

\* the map restricted to the two families the correlator names
NamedOnly(metricFamilies) ==
    [nm \in DOMAIN metricFamilies \cap {ContainerCPUTotal, ContainerCPUThrottledTotal} |->
        metricFamilies[nm]]

\* the visiting order without the families of other names
RECURSIVE NamedOrder(_)
NamedOrder(order) ==
    IF order = << >> THEN << >>
    ELSE (IF Head(order) \in {ContainerCPUTotal, ContainerCPUThrottledTotal}
          THEN <<Head(order)>> ELSE << >>)
         \o NamedOrder(Tail(order))

\* C18: a family whose name is neither the total-periods nor the
\* throttled-periods name is ignored: with a counter family of any other name
\* added to the input, the result is the one obtained without it.
C18_OtherFamilyIgnored ==
    (/\ probe.done
     /\ OtherFamily \in DOMAIN probe.families
     /\ probe.families[OtherFamily].Type = "COUNTER") =>
        probe.result = parseMetricFamilies(NamedOnly(probe.families),
                                           NamedOrder(probe.order))

\* whether the family is in the map and has a point for the identity
FamilyHas(nm, id) ==
    /\ nm \in DOMAIN probe.families
    /\ PointsOf(probe.families[nm], id) # {}

\* C19: a throttling entry is written to the sink only for an identity for
\* which both counters were present; when the total-periods family is absent,
\* no throttling entry is written rather than one with a total of 0.
C19_ThrottlingEntryNeedsBoth ==
    probe.done =>
        \A e \in metricSink :
            e.mtype = "VCPUThrottling" =>
                /\ FamilyHas(ContainerCPUTotal, e.key)
                /\ FamilyHas(ContainerCPUThrottledTotal, e.key)

\* C20: whatever optional fields of the node's and pods' statistics are present
\* or absent, the generators run to completion: no task ends in a fault.
C20_PartialDataNeverFaults ==
    fault # "nil pointer dereference"

\* C21: each cycle starts with a fresh sink: after ReceiveTask and until Do
\* begins the sink is empty, and when Do has returned the sink holds only
\* entries written by the tasks of this cycle, never one of an earlier cycle.
C21_FreshSinkPerCycle ==
    /\ (hist.received /\ callerPc = "idle" /\ rrsRet = "none") => metricSink = {}
    /\ rrsRet # "none" => metricSink \subseteq UNION {OwnEntries(t) : t \in Spawned}

C21_Witness ==
    /\ hist.received /\ rrsRet = "nil" /\ callerPc = "idle"
    /\ Len(nodeList) = 1 /\ Finished(1)
    /\ metricSink = OwnEntries(1) /\ HasNodeUsed(1)
    /\ EntriesOfNode(2) = {}

\* a volume entry: StorageAmount capacity or used
IsVolumeEntry(e) == e.mtype = "StorageAmount"

\* what the generators write for task t's answers when the gate is as given
EntriesUnderGate(t, gate) == AddNewMetricEntries({}, GeneratedFor(t, gate))

\* task t has run the three generators to their end
Generated(t) ==
    /\ Finished(t) /\ taskData[t].summary # 0
    /\ ~(taskData[t].cacheUsed /\ ~isFullDiscovery)

\* C22: volume entries (StorageAmount capacity and used) are written only when
\* the PersistentVolumes feature gate is enabled; when it is disabled no volume
\* entry is written in either mode, and every other entry of a node's task is
\* the one written with the gate enabled.
C22_VolumesOnlyUnderGate ==
    /\ (\E e \in metricSink : IsVolumeEntry(e)) => pvGate
    /\ \A t \in Spawned :
          Generated(t) =>
              {e \in EntriesOfNode(taskNode[t]) :
                   e.mtype \notin {"StorageAmount", "CpuFrequency", "NodeCacheUsed"}}
              = {e \in EntriesUnderGate(t, TRUE) : ~IsVolumeEntry(e)}

C22_Witness ==
    /\ ~pvGate /\ isFullDiscovery
    /\ \E t \in Spawned :
          /\ Generated(t) /\ taskData[t].failed = {}
          /\ \E e \in EntriesUnderGate(t, TRUE) : IsVolumeEntry(e)
          /\ \E e \in EntriesOfNode(taskNode[t]) :
                 e.etype = "Pod" /\ e.mtype = "VStorage" /\ e.role = "Used"
          /\ ~\E e \in EntriesOfNode(taskNode[t]) : IsVolumeEntry(e)

\* a task that passed its stop check and has not yet returned
InFlight(t) == taskPc[t] \in {"cpufreq", "summary", "thresholds", "throttling"}

\* this step is a call of Stop: its send is buffered, blocks, or finds the channel closed
StopRaised ==
    \E s \in Stoppers :
        /\ stopPc[s] = "idle"
        /\ \/ stopPc'[s] = "blocked"
           \/ stopCh.buf = 0 /\ stopCh'.buf = 1
           \/ stopCh.closed /\ fault = "none" /\ fault' = "send on closed channel"

\* this step wakes a Stop that was blocked on the channel of the current cycle
BlockedStopWoken ==
    \E s \in Stoppers : stopPc[s] = "blocked" /\ stopPc'[s] = "panicking"

WrittenInOrder(t) ==
    LET n == taskNode[t]
    IN  (IF isFullDiscovery
         THEN parseNodeCpuFreq(ApiNode(n), CpuFrequencyAnswer(n)) ELSE << >>)
        \o GeneratedFor(t, pvGate)

\* the group of an entry: "freq", "node", "throttling" or "pod"
EntryGroup(e) ==
    IF e.mtype = "CpuFrequency" THEN "freq"
    ELSE IF e.mtype = "VCPUThrottling" THEN "throttling"
    ELSE IF e.etype = "Node" THEN "node"
    ELSE "pod"

\* the sequence writes the groups in the order given by their ranks
WrittenByRank(entries, rank) ==
    \A i \in 1..(Len(entries) - 1) :
        rank[EntryGroup(entries[i])] <= rank[EntryGroup(entries[i + 1])]

HasEntry(etype, key, mtype, role) ==
    \E e \in metricSink :
        e.etype = etype /\ e.key = key /\ e.mtype = mtype /\ e.role = role

\* an entry of a kind that only a full discovery writes
IsFullOnlyEntry(e) ==
    \/ e.mtype \in {"CpuFrequency", "VStorage", "NumPods"}
    \/ e.role \in {"Capacity", "Available", "Threshold"}

\* C25: in a full-discovery cycle a node whose calls all succeed gets a
\* CPU-frequency entry, capacity and available entries for the root and the
\* image filesystem, three threshold entries (memory, rootfs, imagefs), and for
\* each of its pods a consumer-count entry of value 1 and ephemeral-filesystem
\* capacity and used entries; none of these kinds is written in a sampling cycle.
C25_FullDiscoveryExtras ==
    /\ ~isFullDiscovery => \A e \in metricSink : ~IsFullOnlyEntry(e)
    /\ isFullDiscovery =>
          \A t \in Spawned :
              (Generated(t) /\ taskData[t].failed = {}) =>
                  LET key == <<NodeNames[taskNode[t]]>>
                      imagefs == <<NodeNames[taskNode[t]], "imagefs">>
                      pods == SummaryAnswers(taskNode[t])[taskData[t].summary].Pods
                  IN  /\ HasEntry("Node", key, "CpuFrequency", "State")
                      /\ \A k \in {key, imagefs}, role \in {"Capacity", "Available"} :
                             HasEntry("Node", k, "VStorage", role)
                      /\ HasEntry("Node", key, "Memory", "Threshold")
                      /\ HasEntry("Node", key, "VStorage", "Threshold")
                      /\ HasEntry("Node", imagefs, "VStorage", "Threshold")
                      /\ \A p \in 1..Len(pods) :
                             LET podKey == <<pods[p].PodRef.Namespace, pods[p].PodRef.Name>>
                             IN  /\ [etype |-> "Pod", key |-> podKey, mtype |-> "NumPods",
                                     role |-> "Used", val |-> Scalar(1)] \in metricSink
                                 /\ HasEntry("Pod", podKey, "VStorage", "Capacity")
                                 /\ HasEntry("Pod", podKey, "VStorage", "Used")

C25_Witness ==
    /\ isFullDiscovery
    /\ \E t \in Spawned :
          /\ Generated(t) /\ taskData[t].failed = {}
          /\ Len(SummaryAnswers(taskNode[t])[taskData[t].summary].Pods) = 1
          /\ HasEntry("Node", <<NodeNames[taskNode[t]], "imagefs">>, "VStorage", "Threshold")
          /\ HasEntry("Pod", <<NamespaceNames[taskNode[t]], "p">>, "NumPods", "Used")

\* the image-filesystem threshold as the last imagefs signal of the list gives
\* it: 0 when there is none, its percentage when it has one, else its quantity
\* over the image filesystem's capacity
ProbeImagefsComputed ==
    LET hits == {k \in 1..Len(probe.thresholds) :
                     probe.thresholds[k].Signal = "imagefs.available"}
        last == CHOOSE k \in hits : \A j \in hits : j <= k
        value == probe.thresholds[last].Value
    IN  IF hits = {} THEN Pct(0, 100)
        ELSE IF value.Percentage # 0 THEN Pct(value.Percentage, 100)
        ELSE Pct(value.Quantity, OrZero(probe.nodeStats.ImageFsCapacityBytes))

RECURSIVE CounterPrefix(_, _)
CounterPrefix(metricFamilies, order) ==
    IF order = << >> \/ metricFamilies[Head(order)].Type # "COUNTER"
    THEN << >>
    ELSE <<Head(order)>> \o CounterPrefix(metricFamilies, Tail(order))

\* the map restricted to the families of the sequence
VisitedOnly(metricFamilies, visited) ==
    [nm \in {visited[k] : k \in 1..Len(visited)} |-> metricFamilies[nm]]

\* C27: when an input family is not of counter type, parseMetricFamilies stops
\* at that family: it returns the identities parsed from the families visited
\* before it and processes no point of that family or of any visited after it,
\* so the result is the one of the map cut down to the families visited before.
C27_NonCounterFamilyStopsParsing ==
    probe.done =>
        LET visited == CounterPrefix(probe.families, probe.order)
        IN  probe.result = parseMetricFamilies(VisitedOnly(probe.families, visited), visited)

C27_Witness ==
    /\ probe.done
    /\ probe.order = <<ContainerCPUTotal, ContainerCPUThrottledTotal, OtherFamily>>
    /\ probe.families[ContainerCPUThrottledTotal].Type = "GAUGE"
    /\ Len(probe.families[ContainerCPUThrottledTotal].Metric) = 1
    /\ probe.families[OtherFamily].Type = "COUNTER"
    /\ Len(probe.families[OtherFamily].Metric) = 1
    /\ DOMAIN probe.result = {<<"ns1", "p", "c1">>}
    /\ probe.result[<<"ns1", "p", "c1">>] = [cpuThrottled |-> 0, cpuTotal |-> 10]

(* ------- parseNodeStats and parsePodStats exercised on a summary ------- *)
\* the most containers the drawn pod has
MaxContainers == 2

ContainerNames == <<"c1", "c2", "c3", "c4">>

\* CPU usage in nanocores and memory working set in bytes, each absent or present
ContainerUsageInputs == {Nil, 1000000000, 2000000000} \X {Nil, 1024, 4096}

\* the containers of the pod: container k is named by position
ContainersInputs ==
    UNION {{[k \in 1..n |-> [Name |-> ContainerNames[k],
                             UsageNanoCores |-> u[k][1],
                             WorkingSetBytes |-> u[k][2]]] :
                u \in [1..n -> ContainerUsageInputs]} : n \in 0..MaxContainers}

\* one pod: its containers, its ephemeral storage absent or present, and no or one volume
PodInputs ==
    {[PodRef |-> [Namespace |-> "ns1", Name |-> "p"],
      Containers |-> containers,
      EphemeralCapacityBytes |-> eph[1], EphemeralUsedBytes |-> eph[2],
      VolumeStats |-> vols] :
        containers \in ContainersInputs,
        eph \in {<<Nil, Nil>>, <<10485760, 1048576>>},
        vols \in {<< >>, << [Name |-> "v", CapacityBytes |-> 2097152,
                             UsedBytes |-> 1048576] >>}}

\* the summary GetSummary is taken to answer: a node with no memory statistics
\* and no pod or one pod
SummaryInputs ==
    [Node : {ns \in NodeStatsInputs : ns.WorkingSetBytes = Nil},
     Pods : {<< >>} \cup {<<pod>> : pod \in PodInputs}]

SummaryInit ==
    /\ isFullDiscovery \in BOOLEAN
    /\ pvGate \in BOOLEAN
    /\ metricSink = {}
    /\ MonitorConstructed
    /\ probe \in [kind : {"summary"}, summary : SummaryInputs, done : {FALSE}]

\* lines 166-167: parseNodeStats, then parsePodStats, applied to the drawn summary
ProbeSummary ==
    /\ ~probe.done
    /\ metricSink' = AddNewMetricEntries(metricSink,
                         parseNodeStats(probe.summary.Node, << >>, currentMilliSec(1),
                                        isFullDiscovery)
                         \o parsePodStats(probe.summary.Pods, currentMilliSec(1),
                                          isFullDiscovery, pvGate))
    /\ probe' = [probe EXCEPT !.done = TRUE]
    /\ UNCHANGED <<isFullDiscovery, pvGate, nodeList, stopCh, wg, callerPc, spawnIdx,
                   rrsRet, taskPc, taskNode, taskData, stopPc, fault, hist>>

SummaryNext == ProbeSummary

SpecSummary == SummaryInit /\ [][SummaryNext]_vars

\* the pods of the drawn summary, by position
ProbePods == 1..Len(probe.summary.Pods)

ProbePodKey(p) ==
    <<probe.summary.Pods[p].PodRef.Namespace, probe.summary.Pods[p].PodRef.Name>>

\* the key of container k of pod p
ProbeContainerKey(p, k) ==
    Append(ProbePodKey(p), probe.summary.Pods[p].Containers[k].Name)

\* the containers of pod p that report both CPU usage and memory working set
UsableContainers(p) ==
    {k \in 1..Len(probe.summary.Pods[p].Containers) :
         /\ probe.summary.Pods[p].Containers[k].UsageNanoCores # Nil
         /\ probe.summary.Pods[p].Containers[k].WorkingSetBytes # Nil}

\* the containers of pod p for which a container entry is in the sink
WrittenContainers(p) ==
    {k \in 1..Len(probe.summary.Pods[p].Containers) :
         \E e \in metricSink : e.etype = "Container" /\ e.key = ProbeContainerKey(p, k)}

\* the sum of f over the set S
RECURSIVE SumOver(_, _)
SumOver(f, S) ==
    IF S = {} THEN 0
    ELSE LET x == CHOOSE y \in S : TRUE IN f[x] + SumOver(f, S \ {x})

\* the value of the Used entry of the pod for the metric type
PodUsed(p, mtype) ==
    (CHOOSE e \in metricSink :
         e.etype = "Pod" /\ e.key = ProbePodKey(p) /\ e.mtype = mtype /\ e.role = "Used").val

\* C28: a container that lacks CPU-usage data or memory working-set data
\* produces no entry at all (container, request-used or application), and the
\* pod's CPU-used and memory-used values are the sums over exactly the
\* containers of the pod for which entries were written (zero when none was).
C28_SkippedContainersLeaveNoTrace ==
    probe.done =>
        \A p \in ProbePods :
            LET containers == probe.summary.Pods[p].Containers
                cores == [k \in 1..Len(containers) |->
                             containers[k].UsageNanoCores \div 1000000000]
                kilobytes == [k \in 1..Len(containers) |->
                                 containers[k].WorkingSetBytes \div 1024]
            IN  /\ \A k \in 1..Len(containers) :
                       k \notin UsableContainers(p) =>
                           ~\E e \in metricSink :
                               e.key \in {ProbeContainerKey(p, k),
                                          <<"App">> \o ProbeContainerKey(p, k)}
                /\ WrittenContainers(p) = UsableContainers(p)
                /\ PodUsed(p, "CPU") =
                       Point(SumOver(cores, WrittenContainers(p)), currentMilliSec(1))
                /\ PodUsed(p, "Memory") =
                       Point(SumOver(kilobytes, WrittenContainers(p)), currentMilliSec(1))

C28_Witness ==
    /\ probe.done /\ ProbePods = {1}
    /\ Len(probe.summary.Pods[1].Containers) = 2
    /\ UsableContainers(1) = {2}
    /\ probe.summary.Pods[1].Containers[1].UsageNanoCores = 1000000000
    /\ probe.summary.Pods[1].Containers[1].WorkingSetBytes = Nil
    /\ WrittenContainers(1) = {2}
    /\ PodUsed(1, "CPU") = Point(2, currentMilliSec(1))
    /\ PodUsed(1, "Memory") = Point(4, currentMilliSec(1))

\* the roles of the filesystem entries (VStorage, thresholds apart) the sink
\* holds for the entity
FsRoles(etype, key) ==
    {e.role : e \in {x \in metricSink :
                         /\ x.etype = etype /\ x.key = key
                         /\ x.mtype = "VStorage" /\ x.role # "Threshold"}}

\* the entities genFSMetrics is called for in a full discovery of the drawn summary
FsCalls ==
    {<<"Node", <<"n1">>>>, <<"Node", <<"n1", "imagefs">>>>}
    \cup {<<"Pod", ProbePodKey(p)>> : p \in ProbePods}

\* C29: genFSMetrics always writes a VStorage capacity entry for the key and
\* exactly one more entry: an Available entry when the entity is a node, a Used
\* entry for any other entity; never both Available and Used.
C29_FsCapacityPlusOne ==
    (probe.done /\ isFullDiscovery) =>
        \A call \in FsCalls :
            FsRoles(call[1], call[2]) =
                IF call[1] = "Node" THEN {"Capacity", "Available"} ELSE {"Capacity", "Used"}

C29_Witness ==
    /\ probe.done /\ isFullDiscovery /\ ProbePods = {1}
    /\ FsRoles("Node", <<"n1", "imagefs">>) = {"Capacity", "Available"}
    /\ FsRoles("Pod", ProbePodKey(1)) = {"Capacity", "Used"}
    /\ [etype |-> "Pod", key |-> ProbePodKey(1), mtype |-> "VStorage", role |-> "Used",
        val |-> Scalar(1)] \in metricSink

\* the metric types of the Used entries the sink holds for the entity
UsedTypes(etype, key) ==
    {e.mtype : e \in {x \in metricSink :
                          x.etype = etype /\ x.key = key /\ x.role = "Used"}}

\* C30 as stated: for every container with usable CPU and memory data,
\* request-used entries (CPURequest and MemoryRequest, role Used) are written
\* both for the container and for its application, besides their CPU-used and
\* memory-used entries.
C30_RequestUsedForContainerAndApp ==
    probe.done =>
        \A p \in ProbePods : \A k \in UsableContainers(p) :
            /\ UsedTypes("Container", ProbeContainerKey(p, k)) =
                   {"CPU", "Memory", "CPURequest", "MemoryRequest"}
            /\ UsedTypes("Application", <<"App">> \o ProbeContainerKey(p, k)) =
                   {"CPU", "Memory", "CPURequest", "MemoryRequest"}

\* C30 amended: for every container with usable CPU and memory data,
\* request-used entries (CPURequest and MemoryRequest, role Used) are written
\* for the container, besides its CPU-used and memory-used entries; its
\* application gets CPU-used and memory-used entries only.
C30_RequestUsedForContainerOnly ==
    probe.done =>
        \A p \in ProbePods : \A k \in UsableContainers(p) :
            /\ UsedTypes("Container", ProbeContainerKey(p, k)) =
                   {"CPU", "Memory", "CPURequest", "MemoryRequest"}
            /\ UsedTypes("Application", <<"App">> \o ProbeContainerKey(p, k)) =
                   {"CPU", "Memory"}

C30_Witness ==
    /\ probe.done /\ ProbePods = {1}
    /\ UsableContainers(1) = {1, 2}
    /\ UsedTypes("Container", ProbeContainerKey(1, 2)) =
           {"CPU", "Memory", "CPURequest", "MemoryRequest"}
    /\ UsedTypes("Application", <<"App">> \o ProbeContainerKey(1, 2)) = {"CPU", "Memory"}

(* ------------------- thresholds and their capacities ------------------ *)
\* what the last threshold of the list carrying the signal gives against the
\* capacity: 0 when there is none, percentage * 100 (the fraction is held in
\* hundredths) when it has one, else quantity * 100 / capacity
ProbeComputed(signal, capacity) ==
    LET hits == {k \in 1..Len(probe.thresholds) : probe.thresholds[k].Signal = signal}
        last == CHOOSE k \in hits : \A j \in hits : j <= k
        value == probe.thresholds[last].Value
    IN  IF hits = {} THEN Pct(0, 100)
        ELSE IF value.Percentage # 0 THEN Pct(value.Percentage, 100)
        ELSE Pct(value.Quantity, capacity)

\* the three thresholds, each against its own resource's capacity
ProbeOwnMemory == ProbeComputed("memory.available", ProbeMemoryCapacity)

ProbeOwnRootfs ==
    ProbeComputed("nodefs.available", OrZero(probe.nodeStats.FsCapacityBytes))

ProbeOwnImagefs ==
    ProbeComputed("imagefs.available", OrZero(probe.nodeStats.ImageFsCapacityBytes))

\* C31: GetThresholdPercentile gives percentage * 100 for a non-zero percentage
\* and quantity * 100 / capacity otherwise, and for each signal kind the
\* threshold used comes from the last threshold of that kind in the list,
\* against that resource's own capacity: the image-filesystem entry always
\* carries that value, the memory entry carries it when it is in range, and the
\* root-filesystem entry carries it when it and the image-filesystem value are
\* in range.
C31_EachSignalAgainstOwnCapacity ==
    ThresholdsParsed =>
        /\ ThresholdWritten(<<"n1", "imagefs">>, "VStorage") = ProbeOwnImagefs
        /\ StrictlyInRange(ProbeOwnMemory) =>
              ThresholdWritten(<<"n1">>, "Memory") = ProbeOwnMemory
        /\ (StrictlyInRange(ProbeOwnRootfs) /\ StrictlyInRange(ProbeOwnImagefs)) =>
              ThresholdWritten(<<"n1">>, "VStorage") = ProbeOwnRootfs

C31_Witness ==
    /\ ThresholdsParsed
    /\ probe.nodeStats.FsCapacityBytes = 209715200
    /\ ProbeMemoryCapacity = 268435456
    /\ probe.thresholds =
           << [Signal |-> "imagefs.available",
               Value |-> [Percentage |-> 20, Quantity |-> 0]],
              [Signal |-> "imagefs.available",
               Value |-> [Percentage |-> 0, Quantity |-> 52428800]] >>
    /\ ThresholdWritten(<<"n1", "imagefs">>, "VStorage") = Pct(52428800, 419430400)

(* ---------------------- writes of concurrent tasks -------------------- *)
\* what a write targets in the sink
WriteTarget(e) == <<e.etype, e.key, e.mtype, e.role>>

\* the targets of the writes of task t
WriteTargets(t) == {WriteTarget(OwnWrites(t)[k]) : k \in 1..Len(OwnWrites(t))}

\* C32: with no stop signal, whatever the interleaving and completion order of
\* the node tasks, the returned sink is the union of what each task writes
\* alone, and no two writes of the cycle target the same entity type, entity
\* key, metric type and role: neither two writes of one task nor writes of two
\* different tasks.
C32_SinkIsUnionOfDisjointWrites ==
    (rrsRet = "nil" /\ NoStopSignal) =>
        /\ metricSink = UNION {OwnEntries(t) : t \in Spawned}
        /\ \A t \in Spawned : Cardinality(WriteTargets(t)) = Len(OwnWrites(t))
        /\ \A t, u \in Spawned : t # u => WriteTargets(t) \cap WriteTargets(u) = {}

C32_Witness ==
    /\ rrsRet = "nil" /\ NoStopSignal /\ isFullDiscovery /\ pvGate
    /\ Len(nodeList) = 2
    /\ \A t \in Spawned : Generated(t) /\ taskData[t].failed = {}
    /\ \A t \in Spawned : \E k \in 1..Len(OwnWrites(t)) :
           OwnWrites(t)[k].etype = "Pod" /\ OwnWrites(t)[k].key[2] = "p"
    /\ metricSink = OwnEntries(1) \cup OwnEntries(2)

(* ------------------------------ termination --------------------------- *)
\* one step of the goroutine of task t
TaskStep(t) ==
    \/ TaskStopped(t)
    \/ TaskProceeds(t)
    \/ TaskCpuFreq(t)
    \/ TaskSummary(t)
    \/ TaskThresholds(t)
    \/ TaskGenerate(t)

\* the goroutines that are started keep being scheduled and every client call
\* returns: the spawning loop, each task and the return past the barrier go on
\* whenever they can; calls of ReceiveTask, Do and Stop are left to the caller
Fairness ==
    /\ WF_vars(Spawn)
    /\ WF_vars(RetrieveReturn)
    /\ \A t \in Nodes : WF_vars(TaskStep(t))

SpecFair == Spec /\ Fairness

\* C33: under fair scheduling RetrieveResourceStat, once entered, eventually
\* returns with the wait-group count back at zero, for every node list and
\* whether or not Stop is called at any point.
C33_RetrieveEventuallyReturns ==
    (callerPc # "idle") ~> (callerPc = "idle" /\ wg = 0)

\* C35: a computed root-filesystem threshold that is strictly between 0 and 100
\* is written to the sink unchanged, whatever the memory and image-filesystem
\* thresholds are, an absent or out-of-range image-filesystem signal included.
C35_RootfsInRangeWrittenUnchanged ==
    (ThresholdsParsed /\ StrictlyInRange(ProbeOwnRootfs)) =>
        ThresholdWritten(<<"n1">>, "VStorage") = ProbeOwnRootfs

(* ----------------------- the order of the families -------------------- *)
\* C34: parseMetricFamilies is deterministic: for the same map of family names
\* to families it returns the same result in whatever order the range visits
\* the families, including when some family is not of counter type.
C34_ResultIndependentOfOrder ==
    probe.done =>
        \A order \in MapOrders(probe.families) :
            parseMetricFamilies(probe.families, order) = probe.result

(* ------------------------- cycles and the channel --------------------- *)
\* C36: for every sequence of ReceiveTask, Do and Stop calls the stop channel
\* of a cycle is closed exactly once: RetrieveResourceStat never closes a
\* channel that is already closed, so Do can be repeated, with or without a
\* ReceiveTask in between, without a fault.
C36_ChannelClosedOnce == fault # "close of closed channel"

\* C37: a stop signal does not leak across cycles. After a ReceiveTask, until a
\* Stop is called again, the channel of the new cycle is empty with no sender
\* blocked on it, whatever was sent, left unconsumed or left blocked before; a
\* sender left blocked on a replaced channel never completes; the channel gains
\* a value only by a Stop called on it; and a task is skipped only when the
\* channel of its cycle holds a value or is closed.
C37_StopDoesNotLeakAcrossCycles ==
    /\ []((hist.received /\ ~hist.anyChecked /\ ~hist.stopEarly /\ ~stopCh.closed) =>
              (stopCh.buf = 0 /\ \A s \in Stoppers : stopPc[s] # "blocked"))
    /\ [][\A s \in Stoppers : stopPc[s] = "stale" => stopPc'[s] = "stale"]_vars
    /\ [][stopCh'.buf > stopCh.buf =>
              \E s \in Stoppers : stopPc[s] = "idle" /\ stopPc'[s] = "idle"]_vars
    /\ [][\A t \in Nodes :
              (taskPc[t] = "select" /\ taskData'[t].stopped) =>
                  (stopCh.buf > 0 \/ stopCh.closed)]_vars

C37_Witness ==
    /\ hist.received /\ rrsRet = "nil" /\ fault = "none"
    /\ \E s \in Stoppers : stopPc[s] = "stale"
    /\ Len(nodeList) = 1 /\ NoStopSignal
    /\ Finished(1) /\ hist.scrapes[1] = 1
    /\ OwnEntries(1) # {} /\ OwnEntries(1) \subseteq metricSink

====
